---- MODULE Spec2Model ----
(***************************************************************************)
(* Bounded-memory pyramid construction and tiled-container writing of the  *)
(* mcmicro registration scripts:                                           *)
(*   scripts/register_akoya_palom_v1.py  (staging, level buffers, batched  *)
(*                                        writer)                          *)
(*   register_akoya_palom.py, register_akoya_palom_v2.py (staging, palom   *)
(*                                        writer)                          *)
(*   convert_to_pyramidal.py, downsample_registered.py (build_pyramid)     *)
(*                                                                         *)
(* The specifications of the module:                                       *)
(*   Spec         - one run of main() of register_akoya_palom_v1.py        *)
(*   SpecPlan     - the level planner and build_pyramid as pure functions  *)
(*   SpecPalom    - one run of main() of register_akoya_palom.py / _v2.py  *)
(*   SpecStaging  - a run of either of the two                             *)
(*   SpecMetadata - a run of v1 main or of one of the three other writers  *)
(*   SpecLive     - Spec with the fairness of a sequential program         *)
(*   SpecParse    - parse_cycle_channels applied to bounded strings        *)
(*   SpecTiles    - one run of main() of tile_large_image.py               *)
(***************************************************************************)
EXTENDS Integers, Sequences, FiniteSets, TLC

VARIABLES
    \* ---- register_akoya_palom_v1.py main ----
    input,              \* files on disk and parsed arguments of the run
    pc,                 \* position of main
    temp_dir,           \* "none" | "exists" | "removed"
    cycles_info,        \* list of (cycle_idx, channels_to_keep, aligner?)
    cyc_pos,            \* position of the outer staging loop (1-based)
    ch_pos,             \* position of the inner staging loop (1-based)
    global_channel_idx,
    temp_files,         \* list of staged file names
    disk,               \* staged .npy files: name -> plane
    total_channels,
    dtype,              \* sample width of the level buffers (bits), 0 = unset
    pyramid_shapes,     \* list of <<h, w>>
    mmap_arrays,        \* list of level buffers
    level_idx,
    ch_idx,
    batch_start,
    writes,             \* list of tif.write calls
    out_file,           \* output container: "absent" | "open" | "closed"
    failed_at,          \* the position at which an exception left main, or "none"
    store_log,          \* history: every (level, channel) assignment, in order
    pixel_size,         \* pixel size for the output metadata, 0 = unset
    marker_names,       \* list of channel names
    error,              \* the exception that left main: what it reports
    in_ram,             \* whole planes held as arrays in memory by the last step
    \* ---- planner as a pure function ----
    plan_in,
    plan_out,
    plan_levels,        \* the "Expected pyramid levels" count, 0 = not computed
    \* ---- register_akoya_palom.py / register_akoya_palom_v2.py main ----
    p_in,
    p_pc,
    p_temp_dir,
    p_cycle,            \* file index of the moving-cycle loop
    p_pos,              \* position in the current channel list (1-based)
    p_global_channel_idx,
    temp_channel_files, \* list of staged file names
    p_failed_at,        \* the position at which an exception left main, or "none"
    p_staged,           \* history: (cycle, local channel) of every staged file
    p_progress,         \* history: the percentages passed to report_progress
    p_error,            \* the exception that left main: its type, what it reports
    p_out_file,         \* the output container: "absent", "partial", "written"
    p_readers,          \* number of OmePyramidReader objects opened so far
    \* ---- write_pyramidal_ometiff, convert_to_pyramidal.py and
    \*      downsample_registered.py main ----
    conv_in,            \* the input file and the arguments
    conv_writes,        \* list of tif.write calls
    conv_pc,            \* "idle", "CREATED", "DONE" or "FAILED"
    conv_level,         \* index of the input level that was read, NoLevel if none
    \* ---- parse_cycle_channels of the three registration scripts ----
    parse_in,           \* the --cycle-channels string, n_files
    parse_out,          \* which copy was called and what it returned or raised
    \* ---- tile_large_image.py main ----
    tile_in,            \* image shape, --tile-size, --overlap
    tile_pc,
    tiles_info,         \* list of (y, y_end, x, x_end)
    tile_info_file,     \* the tile lines of tile_info.txt: name and positions
    tile_files          \* the tile files written: name and region

v1vars == <<input, pc, temp_dir, cycles_info, cyc_pos, ch_pos, global_channel_idx,
            temp_files, disk, total_channels, dtype, pyramid_shapes, mmap_arrays,
            level_idx, ch_idx, batch_start, writes, out_file, failed_at,
            store_log, pixel_size, marker_names, error, in_ram>>
planvars == <<plan_in, plan_out, plan_levels>>
palomvars == <<p_in, p_pc, p_temp_dir, p_cycle, p_pos, p_global_channel_idx,
               temp_channel_files, p_failed_at, p_staged, p_progress,
               p_error, p_out_file, p_readers>>
convvars == <<conv_in, conv_writes, conv_pc, conv_level>>
parsevars == <<parse_in, parse_out>>
tilevars == <<tile_in, tile_pc, tiles_info, tile_info_file, tile_files>>
funvars == <<parsevars, tilevars>>
vars == <<v1vars, planvars, palomvars, convvars, funvars>>

-----------------------------------------------------------------------------
(* Bounds of the model *)

MaxFiles == 2
MaxChan == 2
MaxDim == 5
MaxLevels == 3
MaxMinSize == 2
MaxPlanDim == 9
MaxPlanLevels == 6
MaxPlanMinSize == 5
MaxItems == 3
MaxPixel == 3

-----------------------------------------------------------------------------
(* Python helpers *)

Min(a, b) == IF a < b THEN a ELSE b

\* len(range(start, stop, step)) for step > 0
RangeLen(start, stop, step) ==
    IF stop <= start THEN 0 ELSE (stop - start + step - 1) \div step

\* The length of seq[:stop:step] for a sequence of length n (0 <= stop)
SliceLen(n, stop, step) == RangeLen(0, Min(stop, n), step)

-----------------------------------------------------------------------------
(* Level planner *)

\* StopPlanning_Le: a threshold test that also stops on equality
StopPlanning_Le(prev_h, prev_w, min_size) == Min(prev_h, prev_w) <= min_size

\* StopPlanning_Next: a threshold test on the level about to be emitted, so
\* that no level below the threshold is planned
StopPlanning_Next(prev_h, prev_w, min_size) ==
    Min(prev_h \div 2, prev_w \div 2) < min_size

\* StopPlanning_One: the planner stops only below one sample
StopPlanning_One(prev_h, prev_w, min_size) == Min(prev_h, prev_w) < 1

\* "if min(prev_h, prev_w) < args.min_size_for_next_level: break"
StopPlanning(prev_h, prev_w, min_size) == Min(prev_h, prev_w) < min_size

\* NextShape_Ceil: halved dimensions rounded up instead of down
NextShape_Ceil(prev_h, prev_w) == <<(prev_h + 1) \div 2, (prev_w + 1) \div 2>>

\* "pyramid_shapes.append((prev_h // 2, prev_w // 2))"
NextShape(prev_h, prev_w) == <<prev_h \div 2, prev_w \div 2>>

\* The loop "for i in range(1, max_levels)" over pyramid_shapes
RECURSIVE PlanLoop(_, _, _, _)
PlanLoop(shapes, i, max_levels, min_size) ==
    IF i >= max_levels THEN shapes
    ELSE LET prev_h == shapes[Len(shapes)][1]
             prev_w == shapes[Len(shapes)][2]
         IN  IF StopPlanning(prev_h, prev_w, min_size) THEN shapes
             ELSE PlanLoop(Append(shapes, NextShape(prev_h, prev_w)),
                           i + 1, max_levels, min_size)

\* pyramid_shapes of main: level 0 is (h, w), then the loop
PlanShapes(h, w, max_levels, min_size) ==
    PlanLoop(<< <<h, w>> >>, 1, max_levels, min_size)

\* The shape of prev[:, : 2 * h2 : 2, : 2 * w2 : 2] for prev of shape (h, w)
DownShape(h, w) ==
    LET h2 == h \div 2
        w2 == w \div 2
    IN  <<SliceLen(h, 2 * h2, 2), SliceLen(w, 2 * w2, 2)>>

\* build_pyramid, on the shapes of its levels
RECURSIVE BuildPyramidLoop(_, _, _, _)
BuildPyramidLoop(levels, lvl, max_levels, min_size_for_next) ==
    IF lvl >= max_levels THEN levels
    ELSE LET h == levels[Len(levels)][1]
             w == levels[Len(levels)][2]
         IN  IF Min(h, w) < min_size_for_next THEN levels
             ELSE BuildPyramidLoop(Append(levels, DownShape(h, w)),
                                   lvl + 1, max_levels, min_size_for_next)

BuildPyramidShapes(h, w, max_levels, min_size_for_next) ==
    BuildPyramidLoop(<< <<h, w>> >>, 1, max_levels, min_size_for_next)

-----------------------------------------------------------------------------
(* Planes *)

\* A plane: h x w samples of width bits, read from channel `channel` of
\* cycle `cycle`; px maps <<row, column>> (0-based) to the sample
Positions(h, w) == (0 .. h - 1) \X (0 .. w - 1)

Pow2(bits) == IF bits = 8 THEN 256 ELSE 65536

\* x[:stop_h:step, :stop_w:step]
Strided(p, stop_h, stop_w, step) ==
    LET h2 == SliceLen(p.h, stop_h, step)
        w2 == SliceLen(p.w, stop_w, step)
    IN  [p EXCEPT !.h = h2, !.w = w2,
                  !.px = [ij \in Positions(h2, w2) |->
                             p.px[<<ij[1] * step, ij[2] * step>>]]]

\* DecimateStep_Odd: keeps the odd rows and columns, x[1::2, 1::2]
DecimateStep_Odd(p) ==
    LET h2 == p.h \div 2
        w2 == p.w \div 2
    IN  [p EXCEPT !.h = h2, !.w = w2,
                  !.px = [ij \in Positions(h2, w2) |->
                             p.px[<<2 * ij[1] + 1, 2 * ij[2] + 1>>]]]

\* "h2, w2 = shape[0] // 2, shape[1] // 2; channel_level[::2, ::2][:h2, :w2]"
DecimateStep(p) ==
    LET h2 == p.h \div 2
        w2 == p.w \div 2
    IN  Strided(Strided(p, p.h, p.w, 2), h2, w2, 1)

\* "for _ in range(level_idx)": level_idx decimation steps from full resolution
RECURSIVE DownsampleToLevel(_, _)
DownsampleToLevel(channel_full, n) ==
    IF n <= 0 THEN channel_full
    ELSE DownsampleToLevel(DecimateStep(channel_full), n - 1)

\* downsample_2x_Ceil: img[::2, ::2], a trailing odd row or column kept
downsample_2x_Ceil(img) == Strided(img, img.h, img.w, 2)

\* downsample_2x: img[:2*h2:2, :2*w2:2]
downsample_2x(img) ==
    LET h2 == img.h \div 2
        w2 == img.w \div 2
    IN  Strided(img, 2 * h2, 2 * w2, 2)

\* build_pyramid_for_channel: "for _ in range(1, max_levels)" appends
\* downsample_2x(prev) until min(prev.shape) < min_size; build_pyramid does
\* the same to every channel of a (C, H, W) array
RECURSIVE BuildChannelLoop(_, _, _, _)
BuildChannelLoop(levels, lvl, max_levels, min_size) ==
    IF lvl >= max_levels THEN levels
    ELSE LET prev == levels[Len(levels)]
         IN  IF Min(prev.h, prev.w) < min_size THEN levels
             ELSE BuildChannelLoop(Append(levels, downsample_2x(prev)),
                                   lvl + 1, max_levels, min_size)

build_pyramid_for_channel(channel_data, max_levels, min_size) ==
    BuildChannelLoop(<<channel_data>>, 1, max_levels, min_size)

\* Assignment into an array of another sample type casts (wraps) every sample
CastTo(p, bits) ==
    [p EXCEPT !.bits = bits,
              !.px = [ij \in DOMAIN p.px |-> p.px[ij] % Pow2(bits)]]

-----------------------------------------------------------------------------
(* The input of a run of register_akoya_palom_v1.py: the sorted cycle files *)
(* and the parsed arguments                                                 *)

Files(n) == 0 .. n - 1

\* The sample at (i, j) of channel c of cycle f: distinct for distinct
\* f, c, i, j; a 16-bit file holds samples that do not fit 8 bits
Sample(f, c, i, j, bits) ==
    ((IF bits = 16 THEN 256 ELSE 0)
        + (f + c * (MaxFiles + 1)) * (MaxDim + 1) * (MaxDim + 1) + i * (MaxDim + 1) + j)
     % Pow2(bits)

\* reader.read_level_channels(lvl, slice(None))[local_ch_idx].compute(); h and
\* w are the dimensions of the planes at the level read
SourcePlane(inp, f, c) ==
    [h |-> inp.h, w |-> inp.w, bits |-> inp.bits[f], cycle |-> f, channel |-> c,
     warped |-> FALSE,
     px |-> [ij \in Positions(inp.h, inp.w) |-> Sample(f, c, ij[1], ij[2], inp.bits[f])]]

\* palom.align.block_affine_transformed_moving_img: the plane resampled into
\* the reference frame (here: rows rolled by one), sample type kept
Transformed(p) ==
    [p EXCEPT !.warped = TRUE,
              !.px = [ij \in DOMAIN p.px |-> p.px[<<(ij[1] + 1) % p.h, ij[2]>>]]]

\* Selections a --cycle-channels block may give for a cycle
Selections == {<<1, 0>>, <<0>>}

\* cycle_channel_map: no entry, one entry, or an entry for every cycle
ChannelMaps(n) ==
    {<<>>} \cup {[f \in {g} |-> s] : g \in Files(n), s \in Selections}
           \cup {[f \in Files(n) |-> <<1, 0>>]}

\* Runs that vary the cycles, their channel counts and sample types, the
\* reference cycle and the channel selection
InputsFiles ==
    {[n_files |-> n, n_channels |-> nch, bits |-> b,
      ref_index |-> ref, cycle_channel_map |-> m,
      h |-> MaxDim - 1, w |-> MaxDim,
      max_pyramid_levels |-> MaxLevels, min_size_for_next_level |-> MaxMinSize,
      pixel_size |-> [f \in DOMAIN nch |-> f + 1], level |-> 0, markers |-> [exists |-> FALSE, names |-> <<>>]] :
        n \in 1 .. MaxFiles,
        nch \in UNION {[Files(k) -> 1 .. MaxChan] : k \in 1 .. MaxFiles},
        b \in UNION {[Files(k) -> {8, 16}] : k \in 1 .. MaxFiles},
        ref \in 0 .. MaxFiles - 1, m \in UNION {ChannelMaps(k) : k \in 1 .. MaxFiles}}

\* Runs that vary the plane shape and the pyramid parameters
InputsShapes ==
    {[n_files |-> 1, n_channels |-> [f \in Files(1) |-> MaxChan],
      bits |-> [f \in Files(1) |-> b],
      ref_index |-> 0, cycle_channel_map |-> <<>>,
      h |-> h, w |-> w,
      max_pyramid_levels |-> ml, min_size_for_next_level |-> ms,
      pixel_size |-> [f \in Files(1) |-> 1], level |-> 0, markers |-> [exists |-> FALSE, names |-> <<>>]] :
        b \in {8, 16}, h \in 1 .. MaxDim, w \in 1 .. MaxDim,
        ml \in 0 .. MaxLevels, ms \in 1 .. MaxMinSize}

\* The rows of a markers.csv: absent, one name per channel, or one name more
MarkerFiles(n) ==
    {[exists |-> FALSE, names |-> <<>>],
     [exists |-> TRUE, names |-> [k \in 1 .. n |-> <<"marker_", k>>]],
     [exists |-> TRUE, names |-> [k \in 1 .. n + 1 |-> <<"marker_", k>>]]}

\* Runs that vary the pixel size of the reference, the level read (--level)
\* and the markers file
InputsMetadata ==
    {[n_files |-> 1, n_channels |-> [f \in Files(1) |-> MaxChan],
      bits |-> [f \in Files(1) |-> 8],
      ref_index |-> 0, cycle_channel_map |-> <<>>,
      h |-> MaxDim - 1, w |-> MaxDim,
      max_pyramid_levels |-> MaxLevels, min_size_for_next_level |-> MaxMinSize,
      pixel_size |-> [f \in Files(1) |-> px], level |-> lv, markers |-> mk] :
        px \in 1 .. MaxPixel, lv \in 0 .. 1, mk \in MarkerFiles(MaxChan)}

\* Arguments that passed parse_cycle_channels and the ref-index check
ValidInput(inp) ==
    /\ DOMAIN inp.n_channels = Files(inp.n_files)
    /\ DOMAIN inp.bits = Files(inp.n_files)
    /\ inp.ref_index \in Files(inp.n_files)
    /\ DOMAIN inp.cycle_channel_map \subseteq Files(inp.n_files)

Inputs == {inp \in InputsFiles \cup InputsShapes \cup InputsMetadata : ValidInput(inp)}

-----------------------------------------------------------------------------
(* register_akoya_palom_v1.py main: registration and cycles_info *)

batch_size == 3

Ascending(n) == [k \in 1 .. n |-> k - 1]

\* "cycle_channel_map.get(idx, None)"; None keeps list(range(n_channels))
ChannelsToProcess(inp, idx) ==
    IF idx \in DOMAIN inp.cycle_channel_map
    THEN inp.cycle_channel_map[idx]
    ELSE Ascending(inp.n_channels[idx])

\* CycleOrder_FileOrder: the cycles in file order, the reference not first
CycleOrder_FileOrder(ref_index, n_files) == Ascending(n_files)

\* cycles_info starts with the reference cycle; "for idx, path in
\* enumerate(files): if idx == args.ref_index: continue" appends the others
CycleOrder(ref_index, n_files) ==
    <<ref_index>> \o SelectSeq(Ascending(n_files), LAMBDA idx : idx # ref_index)

CyclesInfo(inp) ==
    LET order == CycleOrder(inp.ref_index, inp.n_files)
    IN  [k \in 1 .. Len(order) |->
            [cycle_idx |-> order[k],
             channels_to_keep |-> ChannelsToProcess(inp, order[k]),
             aligner |-> order[k] # inp.ref_index]]

\* SumLen_First: counts the channels of the first (reference) cycle only
SumLen_First(infos) ==
    IF infos = <<>> THEN 0 ELSE Len(Head(infos).channels_to_keep)

\* "sum(len(chans) for _, _, _, chans, _ in cycles_info)"
RECURSIVE SumLen(_)
SumLen(infos) ==
    IF infos = <<>> THEN 0
    ELSE Len(Head(infos).channels_to_keep) + SumLen(Tail(infos))

\* [f"Channel_{i}" for i in range(n_channels)]
DefaultNames(n_channels) == [k \in 1 .. n_channels |-> <<"Channel_", k - 1>>]

\* load_marker_names: the names of markers.csv when the file exists and has
\* n_channels named rows, the default names otherwise
load_marker_names(markers, n_channels) ==
    IF ~markers.exists THEN DefaultNames(n_channels)
    ELSE IF Len(markers.names) = n_channels THEN markers.names
    ELSE DefaultNames(n_channels)

\* ChName_Mod2: file names that repeat every two channels
ChName_Mod2(k) == <<0, 0, k % 2>>

\* f"ch_{global_channel_idx:03d}.npy": the decimal digits, zero-padded to 3
ChName(k) ==
    IF k < 1000 THEN <<k \div 100, (k \div 10) % 10, k % 10>>
    ELSE <<k \div 1000, (k \div 100) % 10, (k \div 10) % 10, k % 10>>

\* Saved_Lost: the save leaves no file behind
Saved_Lost(files, name, plane) == files

\* np.save(temp_file, channel_np)
Saved(files, name, plane) ==
    [n \in DOMAIN files \cup {name} |-> IF n = name THEN plane ELSE files[n]]

\* Lines 507-518: channel_np = channel_da.compute() is the one array of a
\* staging iteration; the transform of a moving cycle reads its source plane
\* to produce it. "del channel_np, channel_da" ends the iteration
StagingPlanes(aligner) == IF aligner THEN 2 ELSE 1

\* Lines 603-617: channel_full = np.load(temp_file), and above level 0 the
\* derived channel_level; both are deleted before the next channel. The
\* level buffers are np.memmap files, not arrays in memory
LevelPlanes(lvl) == IF lvl = 0 THEN 1 ELSE 2

\* BatchPlanes_Kept: the earlier batches of the level are still held
BatchPlanes_Kept(start, end) == end

\* Lines 662-663, 701-702: batch_data = np.array(mmap_array[batch_start:
\* batch_end]) is loaded, written, then "del batch_data" before the next one
BatchPlanes(start, end) == end - start

\* What an exception reports about the channel that failed
NoChannel == -1

NoError == [raised |-> FALSE, channel |-> NoChannel]

\* The exceptions a failing read, transform or save of one channel can raise:
\* the callee is given the channel's index inside its cycle (cycle_da[
\* local_ch_idx], read_level_channels(level, local_ch_idx)), never
\* global_channel_idx; its exception names that index or no index
UpstreamErrors(local_ch_idx) ==
    {[raised |-> TRUE, channel |-> c] : c \in {NoChannel, local_ch_idx}}

\* The exception types the model tells apart
ErrorTypes == {"ValueError", "Exception"}

NoPalomError == [raised |-> FALSE, type |-> "none", channel |-> NoChannel]

PalomError(type, channel) == [raised |-> TRUE, type |-> type, channel |-> channel]

\* Finally_NotWhileStaging: the cleanup does not cover the staging loops
Finally_NotWhileStaging(td, at) ==
    IF at = "STAGING" THEN td ELSE IF td = "exists" THEN "removed" ELSE td

\* "finally: if os.path.exists(temp_dir): shutil.rmtree(temp_dir)"
Finally(td, at) == IF td = "exists" THEN "removed" ELSE td

-----------------------------------------------------------------------------
(* register_akoya_palom_v1.py main, step by step *)

\* The positions of main inside "try:" (lines 494-716)
InTry == {"STAGING", "PLAN", "LEVEL_OPEN", "LEVEL_CHAN", "LEVEL_CLOSE",
          "WRITE_OPEN", "WRITING", "WRITE_CLOSE"}

Terminal == {"DONE", "FAILED"}

n_levels == Len(pyramid_shapes)

\* np.memmap(mmap_file, dtype=dtype, mode='w+', shape=(total_channels, h, w)):
\* a new zero-filled file
NewLevelBuffer(shape, bits, n) ==
    [h |-> shape[1], w |-> shape[2], bits |-> bits,
     ch |-> [c \in 0 .. n - 1 |-> [ij \in Positions(shape[1], shape[2]) |-> 0]]]

\* Entry c of a level buffer, as a plane
BufferPlane(buf, c) == [h |-> buf.h, w |-> buf.w, bits |-> buf.bits, px |-> buf.ch[c]]

\* Lines 304-470: arguments are valid, the readers open, every moving cycle
\* is registered, cycles_info is built; "pixel_size =
\* float(ref_reader.pixel_size)" is the level-0 pixel size of the reference
Register ==
    /\ pc = "CREATED"
    /\ cycles_info' = CyclesInfo(input)
    /\ pixel_size' = input.pixel_size[input.ref_index]
    /\ pc' = "REGISTERED"
    /\ UNCHANGED <<planvars, funvars, palomvars, convvars, input, in_ram, error, marker_names, temp_dir, cyc_pos, ch_pos, global_channel_idx, temp_files,
                   disk, total_channels, dtype, pyramid_shapes, mmap_arrays, level_idx,
                   ch_idx, batch_start, writes, out_file, failed_at, store_log>>

\* Lines 474-492: total_channels, then temp_dir = tempfile.mkdtemp()
MkTemp ==
    /\ pc = "REGISTERED"
    /\ total_channels' = SumLen(cycles_info)
    /\ temp_dir' = "exists"
    /\ temp_files' = <<>>
    /\ global_channel_idx' = 0
    /\ cyc_pos' = 1
    /\ ch_pos' = 1
    /\ pc' = "STAGING"
    /\ UNCHANGED <<planvars, funvars, palomvars, convvars, input, in_ram, error, pixel_size, marker_names, cycles_info, disk, dtype, pyramid_shapes, mmap_arrays,
                   level_idx, ch_idx, batch_start, writes, out_file, failed_at,
                   store_log>>

\* An exception before the try block: a reader, the registration or mkdtemp
\* fails; no finally clause is in scope
RaiseBeforeTry ==
    /\ pc \in {"CREATED", "REGISTERED"}
    /\ failed_at' = pc
    /\ error' = [raised |-> TRUE, channel |-> NoChannel]
    /\ pc' = "FAILED"
    /\ UNCHANGED <<planvars, funvars, palomvars, convvars, input, in_ram, pixel_size, marker_names, temp_dir, cycles_info, cyc_pos, ch_pos, global_channel_idx,
                   temp_files, disk, total_channels, dtype, pyramid_shapes, mmap_arrays,
                   level_idx, ch_idx, batch_start, writes, out_file, store_log>>

\* Lines 500-531: one iteration of the inner staging loop
StageChannel ==
    /\ pc = "STAGING"
    /\ cyc_pos <= Len(cycles_info)
    /\ LET info == cycles_info[cyc_pos]
           local_ch_idx == info.channels_to_keep[ch_pos]
           channel_da == SourcePlane(input, info.cycle_idx, local_ch_idx)
           channel_np == IF info.aligner THEN Transformed(channel_da) ELSE channel_da
           temp_file == ChName(global_channel_idx)
           last_of_cycle == ch_pos = Len(info.channels_to_keep)
       IN  /\ local_ch_idx < input.n_channels[info.cycle_idx]
           /\ disk' = Saved(disk, temp_file, channel_np)
           /\ in_ram' = StagingPlanes(info.aligner)
           /\ temp_files' = Append(temp_files, temp_file)
           /\ global_channel_idx' = global_channel_idx + 1
           /\ ch_pos' = IF last_of_cycle THEN 1 ELSE ch_pos + 1
           /\ cyc_pos' = IF last_of_cycle THEN cyc_pos + 1 ELSE cyc_pos
           /\ pc' = IF last_of_cycle /\ cyc_pos = Len(cycles_info)
                    THEN "PLAN" ELSE "STAGING"
    /\ UNCHANGED <<planvars, funvars, palomvars, convvars, input, error, pixel_size, marker_names, temp_dir, cycles_info, total_channels, dtype, pyramid_shapes,
                   mmap_arrays, level_idx, ch_idx, batch_start, writes, out_file,
                   failed_at, store_log>>

\* Lines 533-577: marker names, first_ch = np.load(temp_files[0]), the shapes
Plan ==
    /\ pc = "PLAN"
    /\ in_ram' = 1
    /\ Len(temp_files) >= 1
    /\ LET first_ch == disk[temp_files[1]]
       IN  /\ dtype' = first_ch.bits
           /\ pyramid_shapes' = PlanShapes(first_ch.h, first_ch.w,
                                           input.max_pyramid_levels,
                                           input.min_size_for_next_level)
    /\ marker_names' = load_marker_names(input.markers, total_channels)
    /\ mmap_arrays' = <<>>
    /\ level_idx' = 0
    /\ pc' = "LEVEL_OPEN"
    /\ UNCHANGED <<planvars, funvars, palomvars, convvars, input, error, pixel_size, temp_dir, cycles_info, cyc_pos, ch_pos, global_channel_idx,
                   temp_files, disk, total_channels, ch_idx, batch_start, writes,
                   out_file, failed_at, store_log>>

\* Lines 583-595: the level buffer of level_idx is created (entry level_idx of
\* mmap_arrays is the local mmap_array until line 624 appends it)
LevelOpen ==
    /\ pc = "LEVEL_OPEN"
    /\ in_ram' = 0
    /\ level_idx < n_levels
    /\ mmap_arrays' = Append(mmap_arrays,
                             NewLevelBuffer(pyramid_shapes[level_idx + 1], dtype,
                                            total_channels))
    /\ ch_idx' = 0
    /\ pc' = "LEVEL_CHAN"
    /\ UNCHANGED <<planvars, funvars, palomvars, convvars, input, error, pixel_size, marker_names, temp_dir, cycles_info, cyc_pos, ch_pos, global_channel_idx,
                   temp_files, disk, total_channels, dtype, pyramid_shapes, level_idx,
                   batch_start, writes, out_file, failed_at, store_log>>

\* Lines 598-617: one channel of the level: load, downsample, assign
LevelChannel ==
    /\ pc = "LEVEL_CHAN"
    /\ ch_idx < Len(temp_files)
    /\ LET channel_full == disk[temp_files[ch_idx + 1]]
           channel_level == DownsampleToLevel(channel_full, level_idx)
           mmap_array == mmap_arrays[level_idx + 1]
       IN  /\ ch_idx < total_channels
           /\ channel_level.h = mmap_array.h
           /\ channel_level.w = mmap_array.w
           /\ mmap_arrays' = [mmap_arrays EXCEPT ![level_idx + 1].ch[ch_idx] =
                                 CastTo(channel_level, mmap_array.bits).px]
    /\ in_ram' = LevelPlanes(level_idx)
    /\ store_log' = Append(store_log, <<level_idx, ch_idx>>)
    /\ ch_idx' = ch_idx + 1
    /\ pc' = IF ch_idx + 1 = Len(temp_files) THEN "LEVEL_CLOSE" ELSE "LEVEL_CHAN"
    /\ UNCHANGED <<planvars, funvars, palomvars, convvars, input, error, pixel_size, marker_names, temp_dir, cycles_info, cyc_pos, ch_pos, global_channel_idx,
                   temp_files, disk, total_channels, dtype, pyramid_shapes, level_idx,
                   batch_start, writes, out_file, failed_at>>

\* Lines 619-625: flush, the level is complete
LevelClose ==
    /\ pc = "LEVEL_CLOSE"
    /\ in_ram' = 0
    /\ level_idx' = level_idx + 1
    /\ pc' = IF level_idx + 1 = n_levels THEN "WRITE_OPEN" ELSE "LEVEL_OPEN"
    /\ UNCHANGED <<planvars, funvars, palomvars, convvars, input, error, pixel_size, marker_names, temp_dir, cycles_info, cyc_pos, ch_pos, global_channel_idx,
                   temp_files, disk, total_channels, dtype, pyramid_shapes, mmap_arrays,
                   ch_idx, batch_start, writes, out_file, failed_at, store_log>>

\* Lines 630-641: the buffers are flushed, tifffile.TiffWriter opens the output
WriterOpen ==
    /\ pc = "WRITE_OPEN"
    /\ in_ram' = 0
    /\ out_file' = "open"
    /\ writes' = <<>>
    /\ level_idx' = 0
    /\ batch_start' = 0
    /\ pc' = "WRITING"
    /\ UNCHANGED <<planvars, funvars, palomvars, convvars, input, error, pixel_size, marker_names, temp_dir, cycles_info, cyc_pos, ch_pos, global_channel_idx,
                   temp_files, disk, total_channels, dtype, pyramid_shapes, mmap_arrays,
                   ch_idx, failed_at, store_log>>

\* NextBatchStart_Stuck: the batch loop does not advance
NextBatchStart_Stuck(start) == start

\* "for batch_start in range(0, total_channels, batch_size)": the next value
NextBatchStart(start) == start + batch_size

\* BatchEnd_Unclamped: the end of the batch not limited to total_channels
BatchEnd_Unclamped(start, total) == start + batch_size

\* "batch_end = min(batch_start + batch_size, total_channels)"
BatchEnd(start, total) == Min(start + batch_size, total)

\* CarriesMetadata_Level0: every batch of level 0 carries the metadata
CarriesMetadata_Level0(level, start) == level = 0

\* "if level_idx == 0 and batch_start == 0:" the write that is given metadata=
CarriesMetadata(level, start) == level = 0 /\ start = 0

\* The metadata= argument of the first write call (lines 673-679)
OmeMetadata(px) ==
    [axes |-> "CYX", PhysicalSizeX |-> px, PhysicalSizeY |-> px,
     PhysicalSizeXUnit |-> "um", PhysicalSizeYUnit |-> "um"]

\* Lines 643-706: one batch of one level, one tif.write call; subifds = 0
\* stands for subifds=None, subfiletype = 0 for the argument left out
WriteBatch ==
    /\ pc = "WRITING"
    /\ level_idx < n_levels
    /\ batch_start < total_channels
    /\ LET batch_end == BatchEnd(batch_start, total_channels)
           n_sub == n_levels - 1
           last_batch == batch_start + batch_size >= total_channels
       IN  /\ writes' = Append(writes,
                [level |-> level_idx, batch_start |-> batch_start,
                 batch_end |-> batch_end,
                 shape |-> <<mmap_arrays[level_idx + 1].h, mmap_arrays[level_idx + 1].w>>,
                 subifds |-> IF level_idx = 0 /\ n_sub > 0 THEN n_sub ELSE 0,
                 subfiletype |-> IF level_idx = 0 THEN 0 ELSE 1,
                 metadata |-> CarriesMetadata(level_idx, batch_start),
                 meta |-> IF CarriesMetadata(level_idx, batch_start)
                          THEN OmeMetadata(pixel_size) ELSE <<>>])
           /\ in_ram' = BatchPlanes(batch_start, batch_end)
           /\ batch_start' = IF last_batch THEN 0 ELSE NextBatchStart(batch_start)
           /\ level_idx' = IF last_batch THEN level_idx + 1 ELSE level_idx
           /\ pc' = IF last_batch /\ level_idx + 1 = n_levels
                    THEN "WRITE_CLOSE" ELSE "WRITING"
    /\ UNCHANGED <<planvars, funvars, palomvars, convvars, input, error, pixel_size, marker_names, temp_dir, cycles_info, cyc_pos, ch_pos, global_channel_idx,
                   temp_files, disk, total_channels, dtype, pyramid_shapes, mmap_arrays,
                   ch_idx, out_file, failed_at, store_log>>

\* Lines 708-723: the writer closes, the summary is printed, finally runs
Finish ==
    /\ pc = "WRITE_CLOSE"
    /\ in_ram' = 0
    /\ out_file' = "closed"
    /\ temp_dir' = Finally(temp_dir, pc)
    /\ pc' = "DONE"
    /\ UNCHANGED <<planvars, funvars, palomvars, convvars, input, error, pixel_size, marker_names, cycles_info, cyc_pos, ch_pos, global_channel_idx, temp_files,
                   disk, total_channels, dtype, pyramid_shapes, mmap_arrays, level_idx,
                   ch_idx, batch_start, writes, failed_at, store_log>>

\* An exception inside the try block (a read, the transform, np.save, np.load,
\* np.memmap, an assignment, a tif.write): the with-block closes the writer
\* if it is open, the finally clause of lines 718-723 runs, main raises the
\* exception as it was raised: no except clause adds to it
Raise ==
    /\ pc \in InTry
    /\ in_ram' = 0
    /\ failed_at' = pc
    /\ \E e \in IF pc = "STAGING"
                 THEN UpstreamErrors(cycles_info[cyc_pos].channels_to_keep[ch_pos])
                 ELSE {[raised |-> TRUE, channel |-> NoChannel]} :
          error' = e
    /\ out_file' = IF out_file = "open" THEN "closed" ELSE out_file
    /\ temp_dir' = Finally(temp_dir, pc)
    /\ pc' = "FAILED"
    /\ UNCHANGED <<planvars, funvars, palomvars, convvars, input, pixel_size, marker_names, cycles_info, cyc_pos, ch_pos, global_channel_idx, temp_files,
                   disk, total_channels, dtype, pyramid_shapes, mmap_arrays, level_idx,
                   ch_idx, batch_start, writes, store_log>>

PlanIdle == /\ plan_in = <<>> /\ plan_out = <<>> /\ plan_levels = 0

ParseIdle == /\ parse_in = <<>> /\ parse_out = <<>>

TilesIdle ==
    /\ tile_in = <<>>
    /\ tile_pc = "idle"
    /\ tiles_info = <<>>
    /\ tile_info_file = <<>>
    /\ tile_files = <<>>

FunIdle == ParseIdle /\ TilesIdle

\* No level of an input file has been read
NoLevel == -1

ConvIdle ==
    /\ conv_in = <<>>
    /\ conv_writes = <<>>
    /\ conv_pc = "idle"
    /\ conv_level = NoLevel

PalomIdle ==
    /\ p_in = <<>>
    /\ p_pc = "idle"
    /\ p_temp_dir = "none"
    /\ p_cycle = 0
    /\ p_pos = 0
    /\ p_global_channel_idx = 0
    /\ temp_channel_files = <<>>
    /\ p_failed_at = "none"
    /\ p_staged = <<>>
    /\ p_progress = <<>>
    /\ p_error = NoPalomError
    /\ p_out_file = "absent"
    /\ p_readers = 0

V1Idle ==
    /\ input = <<>>
    /\ pc = "idle"
    /\ temp_dir = "none"
    /\ cycles_info = <<>>
    /\ cyc_pos = 0
    /\ ch_pos = 0
    /\ global_channel_idx = 0
    /\ temp_files = <<>>
    /\ disk = <<>>
    /\ total_channels = 0
    /\ dtype = 0
    /\ pyramid_shapes = <<>>
    /\ mmap_arrays = <<>>
    /\ level_idx = 0
    /\ ch_idx = 0
    /\ batch_start = 0
    /\ writes = <<>>
    /\ out_file = "absent"
    /\ failed_at = "none"
    /\ store_log = <<>>
    /\ pixel_size = 0
    /\ marker_names = <<>>
    /\ error = NoError
    /\ in_ram = 0

InitV1 ==
    /\ input \in Inputs
    /\ pc = "CREATED"
    /\ temp_dir = "none"
    /\ cycles_info = <<>>
    /\ cyc_pos = 0
    /\ ch_pos = 0
    /\ global_channel_idx = 0
    /\ temp_files = <<>>
    /\ disk = <<>>
    /\ total_channels = 0
    /\ dtype = 0
    /\ pyramid_shapes = <<>>
    /\ mmap_arrays = <<>>
    /\ level_idx = 0
    /\ ch_idx = 0
    /\ batch_start = 0
    /\ writes = <<>>
    /\ out_file = "absent"
    /\ failed_at = "none"
    /\ store_log = <<>>
    /\ pixel_size = 0
    /\ marker_names = <<>>
    /\ error = NoError
    /\ in_ram = 0

Init == InitV1 /\ PlanIdle /\ PalomIdle /\ ConvIdle /\ FunIdle

Next ==
    \/ RaiseBeforeTry
    \/ Raise
    \/ Register
    \/ MkTemp
    \/ StageChannel
    \/ Plan
    \/ LevelOpen
    \/ LevelChannel
    \/ LevelClose
    \/ WriterOpen
    \/ WriteBatch
    \/ Finish

Spec == Init /\ [][Next]_vars

\* main is one sequential thread: a step that can be taken is taken
SpecLive == Init /\ [][Next]_vars /\ WF_vars(Next)

-----------------------------------------------------------------------------
(* The planner and build_pyramid applied to bounded inputs *)

\* ExpectedLevelsLoop_Gt: the loop stops when the size equals the threshold
RECURSIVE ExpectedLevelsLoop_Gt(_, _, _, _)
ExpectedLevelsLoop_Gt(current_size, max_levels, min_size, max_pyramid_levels) ==
    IF current_size > min_size /\ max_levels < max_pyramid_levels
    THEN ExpectedLevelsLoop_Gt(current_size \div 2, max_levels + 1, min_size,
                               max_pyramid_levels)
    ELSE max_levels

\* register_akoya_palom.py lines 364-370 (v2: 324-330): the expected number
\* of pyramid levels
RECURSIVE ExpectedLevelsLoop(_, _, _, _)
ExpectedLevelsLoop(current_size, max_levels, min_size, max_pyramid_levels) ==
    IF current_size >= min_size /\ max_levels < max_pyramid_levels
    THEN ExpectedLevelsLoop(current_size \div 2, max_levels + 1, min_size,
                            max_pyramid_levels)
    ELSE max_levels

PlanDims == (1 .. MaxPlanDim) \cup {2048}

PlanInputs ==
    [h : PlanDims, w : PlanDims, max_levels : -1 .. MaxPlanLevels,
     min_size : (0 .. MaxPlanMinSize) \cup {512}]

InitPlan ==
    /\ plan_in \in PlanInputs
    /\ plan_out = [fn |-> "none", shapes |-> <<>>]
    /\ plan_levels = 0

\* pyramid_shapes as main of register_akoya_palom_v1.py computes it
ApplyPlanShapes ==
    /\ plan_out.fn = "none"
    /\ plan_out' = [fn |-> "pyramid_shapes",
                    shapes |-> PlanShapes(plan_in.h, plan_in.w, plan_in.max_levels,
                                          plan_in.min_size)]
    /\ UNCHANGED <<plan_in, plan_levels, v1vars, palomvars, convvars, funvars>>

\* The shapes of the levels build_pyramid returns
ApplyBuildPyramid ==
    /\ plan_out.fn = "none"
    /\ plan_out' = [fn |-> "build_pyramid",
                    shapes |-> BuildPyramidShapes(plan_in.h, plan_in.w,
                                                  plan_in.max_levels, plan_in.min_size)]
    /\ UNCHANGED <<plan_in, plan_levels, v1vars, palomvars, convvars, funvars>>

\* "min_dim = min(h, w); max_levels = 1; current_size = min_dim; while ..."
ApplyExpectedLevels ==
    /\ plan_levels = 0
    /\ plan_levels' = ExpectedLevelsLoop(Min(plan_in.h, plan_in.w), 1,
                                         plan_in.min_size, plan_in.max_levels)
    /\ UNCHANGED <<plan_in, plan_out, v1vars, palomvars, convvars, funvars>>

PlanInit == InitPlan /\ V1Idle /\ PalomIdle /\ ConvIdle /\ FunIdle

PlanNext == ApplyPlanShapes \/ ApplyBuildPyramid \/ ApplyExpectedLevels

SpecPlan == PlanInit /\ [][PlanNext]_vars

-----------------------------------------------------------------------------
(* register_akoya_palom.py and register_akoya_palom_v2.py main *)

PalomInputs ==
    {[script |-> sc, n_files |-> n, n_channels |-> nch, ref_index |-> ref,
      cycle_channel_map |-> m, h |-> MaxDim - 1, w |-> MaxDim,
      max_pyramid_levels |-> ml, min_size_for_next_level |-> MaxMinSize] :
        sc \in {"register_akoya_palom", "register_akoya_palom_v2"},
        ml \in {1, MaxLevels},
        n \in 1 .. MaxFiles, nch \in UNION {[Files(k) -> 1 .. MaxChan] : k \in 1 .. MaxFiles},
        ref \in -1 .. MaxFiles,
        m \in UNION {ChannelMaps(k) : k \in 1 .. MaxFiles}}

\* RefIndexInRange_Inclusive: the upper limit itself accepted
RefIndexInRange_Inclusive(ref_index, n_files) == 0 <= ref_index /\ ref_index <= n_files

\* "if not (0 <= args.ref_index < len(files)): raise ValueError"
RefIndexInRange(ref_index, n_files) == 0 <= ref_index /\ ref_index < n_files

\* parse_cycle_channels: "if not (0 <= idx < n_files): raise ValueError" for
\* the cycle index of every block
CycleIndicesInRange(mapping, n_files) ==
    \A idx \in DOMAIN mapping : 0 <= idx /\ idx < n_files

\* One reader per file: the channel counts are those of the n_files files
WellFormedPalomInput(inp) == DOMAIN inp.n_channels = Files(inp.n_files)

ValidPalomInput(inp) ==
    /\ WellFormedPalomInput(inp)
    /\ RefIndexInRange(inp.ref_index, inp.n_files)
    /\ CycleIndicesInRange(inp.cycle_channel_map, inp.n_files)

\* The next index idx >= from of "for idx, path in enumerate(files)" that is
\* not skipped by "if idx == args.ref_index: continue"; n_files when none
RECURSIVE NextMoving(_, _)
NextMoving(inp, from) ==
    IF from >= inp.n_files THEN inp.n_files
    ELSE IF from = inp.ref_index THEN NextMoving(inp, from + 1)
    ELSE from

\* Lines 177-186: total_channels_estimate; a moving cycle without a selection
\* is counted with the reference cycle's number of channels
RECURSIVE EstimateFrom(_, _)
EstimateFrom(inp, idx) ==
    IF idx >= inp.n_files THEN 0
    ELSE (IF idx = inp.ref_index THEN 0
          ELSE IF idx \in DOMAIN inp.cycle_channel_map
               THEN Len(inp.cycle_channel_map[idx])
               ELSE Len(ChannelsToProcess(inp, inp.ref_index)))
         + EstimateFrom(inp, idx + 1)

total_channels_estimate(inp) ==
    Len(ChannelsToProcess(inp, inp.ref_index)) + EstimateFrom(inp, 0)

\* "progress = 5 + int((global_channel_idx / total_channels_estimate) * 60)"
StagingProgress(idx, estimate) == 5 + (idx * 60) \div estimate

ExpectedLevels(inp) ==
    ExpectedLevelsLoop(Min(inp.h, inp.w), 1, inp.min_size_for_next_level,
                       inp.max_pyramid_levels)

\* progress_tile_func: "progress = 70 + int((level_num / max_levels) * 30)" for
\* level_num = 0, 1, ... over the items the tile generator yields
TileProgress(n_items, max_levels) ==
    [k \in 1 .. n_items |-> 70 + ((k - 1) * 30) \div max_levels]

\* The reports of the try block before the final one: lines 299, 349, 413
TryReports(inp, n_items) == <<67, 70>> \o TileProgress(n_items, ExpectedLevels(inp))

\* report_progress is defined and called by register_akoya_palom.py only
Reports(inp, reports) ==
    IF inp.script = "register_akoya_palom" THEN reports ELSE <<>>

InitPalom ==
    /\ p_in \in {inp \in PalomInputs : WellFormedPalomInput(inp)}
    /\ p_pc = "CREATED"
    /\ p_temp_dir = "none"
    /\ p_cycle = 0
    /\ p_pos = 0
    /\ p_global_channel_idx = 0
    /\ temp_channel_files = <<>>
    /\ p_failed_at = "none"
    /\ p_staged = <<>>
    /\ p_progress = <<>>
    /\ p_error = NoPalomError
    /\ p_out_file = "absent"
    /\ p_readers = 0

\* Lines 128-136 (v2: 135-143): parse_cycle_channels checks the cycle index
\* of every block, then main checks args.ref_index; either raises ValueError
P_Validate ==
    /\ p_pc = "CREATED"
    /\ IF /\ CycleIndicesInRange(p_in.cycle_channel_map, p_in.n_files)
          /\ RefIndexInRange(p_in.ref_index, p_in.n_files)
       THEN /\ p_pc' = "VALIDATED"
            /\ UNCHANGED <<p_failed_at, p_error>>
       ELSE /\ p_pc' = "FAILED"
            /\ p_failed_at' = p_pc
            /\ p_error' = PalomError("ValueError", NoChannel)
    /\ UNCHANGED <<v1vars, planvars, funvars, convvars, p_in, p_temp_dir, p_cycle, p_pos,
                   p_global_channel_idx, temp_channel_files, p_staged, p_progress,
                   p_out_file, p_readers>>

\* Lines 138-197 (v2: 145-186): the reference reader opens,
\* temp_dir = tempfile.mkdtemp(), the reference loop starts
P_MkTemp ==
    /\ p_pc = "VALIDATED"
    /\ p_readers' = 1
    /\ p_temp_dir' = "exists"
    /\ temp_channel_files' = <<>>
    /\ p_global_channel_idx' = 0
    /\ p_pos' = 1
    /\ p_pc' = "REF"
    /\ p_progress' = p_progress \o Reports(p_in, <<5>>)
    /\ UNCHANGED <<v1vars, planvars, funvars, convvars, p_in, p_error, p_out_file, p_cycle, p_failed_at, p_staged>>

\* An exception after the validation and before mkdtemp, or of mkdtemp itself
P_RaiseBeforeStaging ==
    /\ p_pc = "VALIDATED"
    /\ \E type \in ErrorTypes : p_error' = PalomError(type, NoChannel)
    /\ \E opened \in {0, 1} : p_readers' = opened
    /\ p_failed_at' = p_pc
    /\ p_pc' = "FAILED"
    /\ UNCHANGED <<v1vars, planvars, funvars, convvars, p_in, p_out_file, p_temp_dir, p_cycle, p_pos, p_global_channel_idx,
                   temp_channel_files, p_staged, p_progress>>

\* Lines 199-214 (v2: 188-198): one reference channel is read and saved and
\* the progress is reported; after the last channel of the run, lines 287-294
\* report 65
P_StageRef ==
    /\ p_pc = "REF"
    /\ LET ref_channels_to_process == ChannelsToProcess(p_in, p_in.ref_index)
           local_ch_idx == ref_channels_to_process[p_pos]
           last == p_pos = Len(ref_channels_to_process)
           first_moving == NextMoving(p_in, 0)
       IN  /\ local_ch_idx < p_in.n_channels[p_in.ref_index]
           /\ temp_channel_files' = Append(temp_channel_files,
                                           ChName(p_global_channel_idx))
           /\ p_staged' = Append(p_staged, <<p_in.ref_index, local_ch_idx>>)
           /\ p_global_channel_idx' = p_global_channel_idx + 1
           /\ p_pos' = IF last THEN 1 ELSE p_pos + 1
           /\ p_cycle' = IF last THEN first_moving ELSE p_cycle
           /\ p_pc' = IF ~last THEN "REF"
                      ELSE IF first_moving < p_in.n_files THEN "MOVING" ELSE "TRY"
           /\ p_progress' = p_progress \o Reports(p_in,
                  <<StagingProgress(p_global_channel_idx + 1, total_channels_estimate(p_in))>>
                  \o (IF last /\ first_moving >= p_in.n_files THEN <<65>> ELSE <<>>))
    /\ UNCHANGED <<v1vars, planvars, funvars, convvars, p_in, p_error, p_out_file, p_readers, p_temp_dir, p_failed_at>>

\* Lines 217-285 (v2: 201-264): one channel of moving cycle p_cycle is read,
\* transformed and saved (the cycle is registered before its first channel)
P_StageMoving ==
    /\ p_pc = "MOVING"
    /\ p_readers' = IF p_pos = 1 THEN p_readers + 1 ELSE p_readers
    /\ LET channels_to_process == ChannelsToProcess(p_in, p_cycle)
           local_ch_idx == channels_to_process[p_pos]
           last == p_pos = Len(channels_to_process)
           next_moving == NextMoving(p_in, p_cycle + 1)
       IN  /\ local_ch_idx < p_in.n_channels[p_cycle]
           /\ temp_channel_files' = Append(temp_channel_files,
                                           ChName(p_global_channel_idx))
           /\ p_staged' = Append(p_staged, <<p_cycle, local_ch_idx>>)
           /\ p_global_channel_idx' = p_global_channel_idx + 1
           /\ p_pos' = IF last THEN 1 ELSE p_pos + 1
           /\ p_cycle' = IF last THEN next_moving ELSE p_cycle
           /\ p_pc' = IF ~last THEN "MOVING"
                      ELSE IF next_moving < p_in.n_files THEN "MOVING" ELSE "TRY"
           /\ p_progress' = p_progress \o Reports(p_in,
                  <<StagingProgress(p_global_channel_idx + 1, total_channels_estimate(p_in))>>
                  \o (IF last /\ next_moving >= p_in.n_files THEN <<65>> ELSE <<>>))
    /\ UNCHANGED <<v1vars, planvars, funvars, convvars, p_in, p_error, p_out_file, p_temp_dir, p_failed_at>>

\* An exception in the staging loops (a read, the registration, the transform
\* or np.save fails): the loops are not inside any try block, main raises
P_RaiseStaging ==
    /\ p_pc \in {"REF", "MOVING"}
    /\ p_failed_at' = p_pc
    /\ LET cycle == IF p_pc = "REF" THEN p_in.ref_index ELSE p_cycle
           local_ch_idx == ChannelsToProcess(p_in, cycle)[p_pos]
       IN  \E e \in UpstreamErrors(local_ch_idx) :
              p_error' = PalomError("Exception", e.channel)
    /\ p_pc' = "FAILED"
    /\ UNCHANGED <<v1vars, planvars, funvars, convvars, p_in, p_out_file, p_readers, p_temp_dir, p_cycle, p_pos, p_global_channel_idx,
                   temp_channel_files, p_staged, p_progress>>

\* Lines 296-457 (v2: 274-364): the try block completes (the pyramid is
\* written by palom, the tile generator yields n_items items) and its
\* finally clause removes temp_dir
P_Write ==
    /\ p_pc = "TRY"
    /\ p_temp_dir' = Finally(p_temp_dir, p_pc)
    /\ p_pc' = "DONE"
    /\ p_out_file' = "written"
    /\ \E n_items \in 0 .. MaxItems :
          p_progress' = p_progress \o Reports(p_in, TryReports(p_in, n_items) \o <<100>>)
    /\ UNCHANGED <<v1vars, planvars, funvars, convvars, p_in, p_error, p_readers, p_cycle, p_pos, p_global_channel_idx, temp_channel_files,
                   p_failed_at, p_staged>>

\* An exception inside the try block, after some of its progress reports:
\* its finally clause removes temp_dir
P_RaiseTry ==
    /\ p_pc = "TRY"
    /\ p_failed_at' = p_pc
    /\ \E type \in ErrorTypes : p_error' = PalomError(type, NoChannel)
    /\ \E out \in {"absent", "partial"} : p_out_file' = out
    /\ p_temp_dir' = Finally(p_temp_dir, p_pc)
    /\ p_pc' = "FAILED"
    /\ \E n_items \in 0 .. MaxItems :
          \E done \in 0 .. Len(TryReports(p_in, n_items)) :
              p_progress' = p_progress
                  \o Reports(p_in, SubSeq(TryReports(p_in, n_items), 1, done))
    /\ UNCHANGED <<v1vars, planvars, funvars, convvars, p_in, p_readers, p_cycle, p_pos, p_global_channel_idx, temp_channel_files,
                   p_staged>>

PalomInit == InitPalom /\ V1Idle /\ PlanIdle /\ ConvIdle /\ FunIdle

PalomNext ==
    \/ P_Validate
    \/ P_MkTemp
    \/ P_RaiseBeforeStaging
    \/ P_StageRef
    \/ P_StageMoving
    \/ P_RaiseStaging
    \/ P_Write
    \/ P_RaiseTry

SpecPalom == PalomInit /\ [][PalomNext]_vars

\* Staging of either script: a run of register_akoya_palom_v1.py or a run of
\* register_akoya_palom.py / register_akoya_palom_v2.py
StagingInit == Init \/ PalomInit

StagingNext == Next \/ PalomNext

SpecStaging == StagingInit /\ [][StagingNext]_vars

-----------------------------------------------------------------------------
(* write_pyramidal_ometiff of register_akoya_palom_v1.py, and main of        *)
(* convert_to_pyramidal.py and of downsample_registered.py: the container   *)
(* written from an array already in memory                                  *)

\* A pixel size in micrometres is a fraction <<numerator, denominator>>
Frac(n, d) == <<n, d>>

FracEq(a, b) == a[1] * b[2] = b[1] * a[2]

FracTimes(a, k) == <<a[1] * k, a[2]>>

FracOver(a, k) == <<a[1], a[2] * k>>

\* SubIfds_Levels: every level counted as a sub-image, the base included
SubIfds_Levels(n_sub) == n_sub + 1

\* "subifds=n_sub if n_sub > 0 else None"; 0 stands for None
SubIfds(n_sub) == IF n_sub > 0 THEN n_sub ELSE 0

\* The writes of a pyramid already built: level 0 with subifds and metadata,
\* then "for i in range(1, len(pyr))" with subfiletype=1
PyramidWrites(shapes, px_x, px_y, tile_size, compression) ==
    [i \in 1 .. Len(shapes) |->
        [level |-> i - 1, shape |-> shapes[i],
         tile |-> <<tile_size, tile_size>>,
         compression |-> compression,
         subifds |-> IF i = 1 THEN SubIfds(Len(shapes) - 1) ELSE 0,
         subfiletype |-> IF i = 1 THEN 0 ELSE 1,
         metadata |-> i = 1,
         meta |-> IF i = 1
                  THEN [axes |-> "CYX", PhysicalSizeX |-> px_x, PhysicalSizeY |-> px_y,
                        PhysicalSizeXUnit |-> "um", PhysicalSizeYUnit |-> "um"]
                  ELSE <<>>]]

\* convert_to_pyramidal.py lines 56-62: value = XResolution as (numerator,
\* denominator); value[1] / value[0], then 1.0 / pixel_size * 1000; any
\* exception (no tag, division by zero) gives the default 0.5
ConvertPixelSize(has_xres, xres) ==
    IF has_xres /\ xres[1] # 0 /\ xres[2] # 0
    THEN Frac(1000 * xres[1], xres[2])
    ELSE Frac(1, 2)

\* downsample_registered.py lines 52-56: the level read
LevelChoice(level, n_input_levels) == IF level >= n_input_levels THEN 0 ELSE level

\* "level = series.levels[level_idx]": a negative index counts from the last
\* level; NoLevel stands for the IndexError of an index below -n_input_levels
LevelRead(lvl, n_input_levels) ==
    IF lvl >= 0 THEN lvl
    ELSE IF n_input_levels + lvl >= 0 THEN n_input_levels + lvl
    ELSE NoLevel

\* "pixel_size_x *= (2 ** level_idx)"; 2 ** level_idx is a fraction for a
\* negative level_idx
LevelScaled(size, lvl) ==
    IF lvl >= 0 THEN FracTimes(size, 2 ^ lvl) ELSE FracOver(size, 2 ^ (0 - lvl))

\* downsample_registered.py lines 65-77: PhysicalSizeX / PhysicalSizeY of the
\* OME metadata (1.0 when the attribute is missing), adjusted for the level;
\* 1.0 for both when the metadata cannot be read
DownsamplePixelSize(ome, size, lvl) ==
    IF ome = "absent" THEN Frac(1, 1)
    ELSE LevelScaled(IF ome = "size" THEN size ELSE Frac(1, 1), lvl)

\* The shape of level lvl of the input file
RECURSIVE InputLevelShape(_, _, _)
InputLevelShape(h, w, lvl) ==
    IF lvl <= 0 THEN <<h, w>>
    ELSE InputLevelShape(h \div 2, w \div 2, lvl - 1)

Fracs == {Frac(n, d) : n \in 1 .. MaxPixel, d \in 1 .. 2}

ConvDefaults ==
    [script |-> "none", h |-> 1024, w |-> 1024, max_levels |-> 5, min_size |-> 512,
     pixel_size |-> Frac(1, 1), has_xres |-> FALSE, xres |-> <<1, 1>>,
     unit |-> "NONE", ome |-> "absent", size_x |-> Frac(1, 1), size_y |-> Frac(1, 1),
     level |-> 0, n_input_levels |-> 1, tile_size |-> 512, compression |-> "zlib"]

\* Calls of write_pyramidal_ometiff(path, data, pixel_size, ...)
WriterInputs ==
    {[ConvDefaults EXCEPT !.script = "write_pyramidal_ometiff", !.h = h,
                          !.max_levels = ml, !.pixel_size = px,
                          !.tile_size = ts, !.compression = cp] :
        h \in {MaxDim, 1024}, ml \in 0 .. MaxLevels, px \in Fracs,
        ts \in {256, 512}, cp \in {"none", "zlib", "lzw"}}

\* Input files of convert_to_pyramidal.py: the XResolution tag, if any, and
\* the ResolutionUnit tag
ConvertInputs ==
    {[ConvDefaults EXCEPT !.script = "convert_to_pyramidal", !.h = h,
                          !.has_xres = hx, !.xres = <<num, den>>, !.unit = u] :
        h \in {MaxDim, 1024}, hx \in BOOLEAN, num \in 0 .. MaxPixel, den \in 0 .. 2,
        u \in {"NONE", "INCH", "CENTIMETER"}}

\* Input files of downsample_registered.py and --level
DownsampleInputs ==
    {[ConvDefaults EXCEPT !.script = "downsample_registered", !.h = h, !.ome = o,
                          !.size_x = sx, !.size_y = sy, !.level = lv,
                          !.n_input_levels = nl] :
        h \in {MaxDim, 2048}, o \in {"absent", "nosize", "size"},
        sx \in Fracs, sy \in {Frac(1, 1), Frac(MaxPixel, 2)},
        lv \in (0 - MaxLevels) .. MaxLevels, nl \in 1 .. 2}

\* A call whose container is not written yet
ConvPending == conv_pc = "CREATED"

InitConv ==
    /\ conv_in \in WriterInputs \cup ConvertInputs \cup DownsampleInputs
    /\ conv_writes = <<>>
    /\ conv_pc = "CREATED"
    /\ conv_level = NoLevel

\* 'if compression == "none": tif_compression = None'
TifCompression(compression) == IF compression = "none" THEN "None" ELSE compression

\* register_akoya_palom_v1.py lines 202-272
write_pyramidal_ometiff ==
    /\ ConvPending
    /\ conv_in.script = "write_pyramidal_ometiff"
    /\ conv_writes' = PyramidWrites(
           BuildPyramidShapes(conv_in.h, conv_in.w, conv_in.max_levels, conv_in.min_size),
           conv_in.pixel_size, conv_in.pixel_size,
           conv_in.tile_size, TifCompression(conv_in.compression))
    /\ conv_pc' = "DONE"
    /\ UNCHANGED <<conv_in, conv_level, v1vars, planvars, funvars, palomvars>>

\* convert_to_pyramidal.py main, lines 31-102: every page is read
convert_to_pyramidal ==
    /\ ConvPending
    /\ conv_in.script = "convert_to_pyramidal"
    /\ LET px == ConvertPixelSize(conv_in.has_xres, conv_in.xres)
       IN  conv_writes' = PyramidWrites(
               BuildPyramidShapes(conv_in.h, conv_in.w, 5, 512), px, px, 512, "zlib")
    /\ conv_pc' = "DONE"
    /\ UNCHANGED <<conv_in, conv_level, v1vars, planvars, funvars, palomvars>>

\* downsample_registered.py main, lines 36-115; series.levels[level_idx]
\* raises IndexError for an index below -len(series.levels)
downsample_registered ==
    /\ ConvPending
    /\ conv_in.script = "downsample_registered"
    /\ LET lvl == LevelChoice(conv_in.level, conv_in.n_input_levels)
           read == LevelRead(lvl, conv_in.n_input_levels)
           shape == InputLevelShape(conv_in.h, conv_in.w, read)
       IN  IF read = NoLevel
           THEN /\ conv_pc' = "FAILED"
                /\ UNCHANGED <<conv_writes, conv_level>>
           ELSE /\ conv_level' = read
                /\ conv_writes' = PyramidWrites(
                       BuildPyramidShapes(shape[1], shape[2], 5, 512),
                       DownsamplePixelSize(conv_in.ome, conv_in.size_x, lvl),
                       DownsamplePixelSize(conv_in.ome, conv_in.size_y, lvl),
                       512, "zlib")
                /\ conv_pc' = "DONE"
    /\ UNCHANGED <<conv_in, v1vars, planvars, funvars, palomvars>>

ConvInit == InitConv /\ V1Idle /\ PlanIdle /\ PalomIdle /\ FunIdle

ConvNext == write_pyramidal_ometiff \/ convert_to_pyramidal \/ downsample_registered

\* The metadata written by any of the four writers
MetadataInit == Init \/ ConvInit

MetadataNext == Next \/ ConvNext

SpecMetadata == MetadataInit /\ [][MetadataNext]_vars

-----------------------------------------------------------------------------
(* parse_cycle_channels(spec, n_files) of register_akoya_palom_v1.py,        *)
(* register_akoya_palom.py and register_akoya_palom_v2.py. A string is the  *)
(* sequence of its characters.                                              *)

MaxBlocks == 2

Digits == <<"0", "1", "2", "3", "4", "5", "6", "7", "8", "9">>

IsDigit(c) == \E d \in 1 .. 10 : Digits[d] = c

\* str(n) for n >= 0
RECURSIVE NatChars(_)
NatChars(n) ==
    IF n < 10 THEN <<Digits[n + 1]>>
    ELSE NatChars(n \div 10) \o <<Digits[(n % 10) + 1]>>

\* str(n)
IntChars(n) == IF n < 0 THEN <<"-">> \o NatChars(0 - n) ELSE NatChars(n)

\* s.strip()
RECURSIVE Strip(_)
Strip(s) ==
    IF s # <<>> /\ Head(s) = " " THEN Strip(Tail(s))
    ELSE IF s # <<>> /\ s[Len(s)] = " " THEN Strip(SubSeq(s, 1, Len(s) - 1))
    ELSE s

\* "sep in s"
Contains(s, sep) == \E i \in 1 .. Len(s) : s[i] = sep

\* s.split(sep, 1) for s containing sep: the text before and after the first
SplitOnce(s, sep) ==
    LET i == CHOOSE k \in 1 .. Len(s) : s[k] = sep /\ \A j \in 1 .. k - 1 : s[j] # sep
    IN  <<SubSeq(s, 1, i - 1), SubSeq(s, i + 1, Len(s))>>

\* s.split(sep)
RECURSIVE Split(_, _)
Split(s, sep) ==
    IF ~Contains(s, sep) THEN <<s>>
    ELSE <<SplitOnce(s, sep)[1]>> \o Split(SplitOnce(s, sep)[2], sep)

\* The digits after an optional sign, surrounding whitespace ignored
IntBody(s) ==
    LET t == Strip(s)
    IN  IF t # <<>> /\ t[1] \in {"-", "+"} THEN Tail(t) ELSE t

\* int(s) does not raise ValueError
IsIntLiteral(s) ==
    /\ IntBody(s) # <<>>
    /\ \A i \in 1 .. Len(IntBody(s)) : IsDigit(IntBody(s)[i])

RECURSIVE NatVal(_)
NatVal(ds) ==
    IF ds = <<>> THEN 0
    ELSE NatVal(SubSeq(ds, 1, Len(ds) - 1)) * 10
         + (CHOOSE d \in 1 .. 10 : Digits[d] = ds[Len(ds)]) - 1

\* int(s)
IntVal(s) ==
    IF Strip(s)[1] = "-" THEN 0 - NatVal(IntBody(s)) ELSE NatVal(IntBody(s))

\* What a call does: it returns a mapping or raises ValueError
Returned(mapping) == [raised |-> "none", mapping |-> mapping]

Raised == [raised |-> "ValueError", mapping |-> <<>>]

\* The channel list of a block, or "ValueError" raised by int(c):
\* [ok, chans]
\* v1: "for c in chans_str.split(','): c = c.strip(); if not c: continue;
\* chans.append(int(c))"
RECURSIVE ChansLoop(_, _)
ChansLoop(items, chans) ==
    IF items = <<>> THEN [ok |-> TRUE, chans |-> chans]
    ELSE LET c == Strip(Head(items))
         IN  IF c = <<>> THEN ChansLoop(Tail(items), chans)
             ELSE IF ~IsIntLiteral(c) THEN [ok |-> FALSE, chans |-> <<>>]
             ELSE ChansLoop(Tail(items), Append(chans, IntVal(c)))

\* v2 and register_akoya_palom: "[int(c.strip()) for c in
\* chans_str.split(',') if c.strip()]"
ChansComprehension(items) ==
    LET kept == SelectSeq(items, LAMBDA c : Strip(c) # <<>>)
    IN  IF \E i \in 1 .. Len(kept) : ~IsIntLiteral(Strip(kept[i]))
        THEN [ok |-> FALSE, chans |-> <<>>]
        ELSE [ok |-> TRUE, chans |-> [i \in 1 .. Len(kept) |-> IntVal(Strip(kept[i]))]]

\* Put_KeepFirst: a cycle index already in the mapping keeps its channels
Put_KeepFirst(mapping, idx, chans) ==
    [k \in DOMAIN mapping \cup {idx} |->
        IF k \in DOMAIN mapping THEN mapping[k] ELSE chans]

\* "mapping[idx] = chans"
Put(mapping, idx, chans) ==
    [k \in DOMAIN mapping \cup {idx} |-> IF k = idx THEN chans ELSE mapping[k]]

\* "for block in blocks": the first block that is wrong raises
RECURSIVE BlocksLoop(_, _, _, _)
BlocksLoop(blocks, n_files, mapping, copy) ==
    IF blocks = <<>> THEN Returned(mapping)
    ELSE LET block == Head(blocks)
         IN  IF ~Contains(block, ":") THEN Raised
             ELSE LET idx_str == SplitOnce(block, ":")[1]
                      chans_str == SplitOnce(block, ":")[2]
                  IN  IF ~IsIntLiteral(idx_str) THEN Raised
                      ELSE IF ~(0 <= IntVal(idx_str) /\ IntVal(idx_str) < n_files)
                      THEN Raised
                      ELSE LET parsed ==
                                   IF copy = "v1"
                                   THEN ChansLoop(Split(chans_str, ","), <<>>)
                                   ELSE ChansComprehension(Split(chans_str, ","))
                           IN  IF ~parsed.ok THEN Raised
                               ELSE IF parsed.chans = <<>> THEN Raised
                               ELSE BlocksLoop(Tail(blocks), n_files,
                                               Put(mapping, IntVal(idx_str),
                                                   parsed.chans),
                                               copy)

\* "blocks = [b.strip() for b in spec.split(';') if b.strip()]"
Blocks(text) ==
    LET stripped == [i \in 1 .. Len(Split(text, ";")) |-> Strip(Split(text, ";")[i])]
    IN  SelectSeq(stripped, LAMBDA b : b # <<>>)

\* spec is [none |-> TRUE] for None, [none |-> FALSE, text |-> characters]
parse_cycle_channels(spec, n_files, copy) ==
    IF spec.none THEN Returned(<<>>)
    ELSE BlocksLoop(Blocks(spec.text), n_files, <<>>, copy)

\* The blocks a bounded --cycle-channels string is made of: what the block
\* says (kind, cycle index, channels) and how it is spelled
BlockSpecs ==
    [kind : {"ok"}, idx : -1 .. MaxFiles, chans : {<<0>>, <<1, 10>>},
     style : {"plain", "spaced"}]
    \cup [kind : {"nocolon", "nochan", "blank", "word"}, idx : {0}, chans : {<<>>},
          style : {"plain"}]

RECURSIVE Join(_, _)
Join(parts, sep) ==
    IF parts = <<>> THEN <<>>
    ELSE IF Len(parts) = 1 THEN parts[1]
    ELSE parts[1] \o <<sep>> \o Join(Tail(parts), sep)

\* The text of one block: "0:1,10", " 0 : 1 , 10 ,", "0", "0: ,", " ", "a:0"
FormatBlock(b) ==
    IF b.kind = "blank" THEN <<" ">>
    ELSE IF b.kind = "nocolon" THEN IntChars(b.idx)
    ELSE IF b.kind = "nochan" THEN IntChars(b.idx) \o <<":", " ", ",">>
    ELSE IF b.kind = "word" THEN <<"a", ":", "0">>
    ELSE IF b.style = "plain"
    THEN IntChars(b.idx) \o <<":">>
         \o Join([i \in 1 .. Len(b.chans) |-> IntChars(b.chans[i])], ",")
    ELSE <<" ">> \o IntChars(b.idx) \o <<" ", ":">>
         \o Join([i \in 1 .. Len(b.chans) |-> <<" ">> \o IntChars(b.chans[i]) \o <<" ">>],
                 ",")
         \o <<",">>

\* The calls: spec None, or the blocks joined by ';'
ParseInputs ==
    {[none |-> TRUE, blocks |-> <<>>, text |-> <<>>, n_files |-> n] :
        n \in 1 .. MaxFiles}
    \cup {[none |-> FALSE, blocks |-> bl,
           text |-> Join([i \in 1 .. Len(bl) |-> FormatBlock(bl[i])], ";"),
           n_files |-> n] :
        bl \in UNION {[1 .. k -> BlockSpecs] : k \in 0 .. MaxBlocks},
        n \in 1 .. MaxFiles}

Parse(copy) ==
    /\ parse_in # <<>>
    /\ parse_out.copy = "none"
    /\ parse_out' = [copy |-> copy,
                     result |-> parse_cycle_channels(parse_in, parse_in.n_files,
                                                     IF copy = "v1" THEN "v1" ELSE "v2")]
    /\ UNCHANGED <<parse_in, tilevars, v1vars, planvars, palomvars, convvars>>

\* register_akoya_palom_v1.py lines 144-176
parse_v1 == Parse("v1")

\* register_akoya_palom_v2.py lines 51-66
parse_v2 == Parse("v2")

\* register_akoya_palom.py lines 53-70, the same text as v2
parse_palom == Parse("palom")

ParseInit ==
    /\ parse_in \in ParseInputs
    /\ parse_out = [copy |-> "none", result |-> Returned(<<>>)]
    /\ TilesIdle /\ V1Idle /\ PlanIdle /\ PalomIdle /\ ConvIdle

ParseNext == parse_v1 \/ parse_v2 \/ parse_palom

SpecParse == ParseInit /\ [][ParseNext]_vars

-----------------------------------------------------------------------------
(* tile_large_image.py: main() cuts the level-0 image into overlapping      *)
(* tiles, writes tile_info.txt and one OME-TIFF per tile.                    *)

MaxTileDim == 5

MaxTileSize == 3

\* height, width of the image and --tile-size, --overlap with
\* tile_size > overlap >= 0, so that the stride is positive
TileInputs ==
    {t \in [n_channels : {1, 2}, height : 1 .. MaxTileDim, width : 1 .. MaxTileDim,
            tile_size : 1 .. MaxTileSize, overlap : 0 .. MaxTileSize - 1] :
        t.overlap < t.tile_size}

\* list(range(0, stop, step)) for step > 0
RangeSeq(stop, step) == [i \in 1 .. ((stop + step - 1) \div step) |-> (i - 1) * step]

\* TileEnd_Unclamped: the end of a tile is not cut at the image border
TileEnd_Unclamped(start, tile_size, extent) == start + tile_size

\* "min(y + args.tile_size, height)"
TileEnd(start, tile_size, extent) == Min(start + tile_size, extent)

\* f"tile_{idx:03d}"
TileName(idx) ==
    <<"t", "i", "l", "e", "_">>
    \o (IF idx < 10 THEN <<"0", "0">> ELSE IF idx < 100 THEN <<"0">> ELSE <<>>)
    \o NatChars(idx)

\* Lines 36-44: "for y in range(0, height, stride): for x in range(0, width,
\* stride): tiles_info.append((y, y_end, x, x_end))"
CalculateTiles ==
    /\ tile_pc = "CREATED"
    /\ LET stride == tile_in.tile_size - tile_in.overlap
           ys == RangeSeq(tile_in.height, stride)
           xs == RangeSeq(tile_in.width, stride)
       IN  tiles_info' =
             [k \in 1 .. Len(ys) * Len(xs) |->
                LET y == ys[((k - 1) \div Len(xs)) + 1]
                    x == xs[((k - 1) % Len(xs)) + 1]
                IN  <<y, TileEnd(y, tile_in.tile_size, tile_in.height),
                      x, TileEnd(x, tile_in.tile_size, tile_in.width)>>]
    /\ tile_pc' = "TILED"
    /\ UNCHANGED <<tile_in, tile_info_file, tile_files, parsevars,
                   v1vars, planvars, palomvars, convvars>>

\* Lines 48-55: tile_info.txt, three header lines and one line per tile
SaveTileInfo ==
    /\ tile_pc = "TILED"
    /\ tile_info_file' =
         <<[key |-> <<"original_shape">>,
            value |-> <<tile_in.n_channels, tile_in.height, tile_in.width>>],
           [key |-> <<"tile_size">>, value |-> <<tile_in.tile_size>>],
           [key |-> <<"overlap">>, value |-> <<tile_in.overlap>>]>>
         \o [k \in 1 .. Len(tiles_info) |->
               [key |-> TileName(k - 1), value |-> tiles_info[k]]]
    /\ tile_pc' = "INFO"
    /\ UNCHANGED <<tile_in, tiles_info, tile_files, parsevars,
                   v1vars, planvars, palomvars, convvars>>

\* Lines 57-73, one pass of the loop: "tile_da = img_da[:, y:y_end, x:x_end]"
\* (a slice stops at the border of the image) written to
\* f"tile_{idx:03d}.ome.tif"
ExtractTile ==
    /\ tile_pc = "INFO"
    /\ Len(tile_files) < Len(tiles_info)
    /\ LET idx == Len(tile_files)
           t == tiles_info[idx + 1]
       IN  tile_files' =
             Append(tile_files,
                    [name |-> TileName(idx) \o <<".ome.tif">>,
                     y |-> t[1], x |-> t[3],
                     shape |-> <<tile_in.n_channels,
                                 Min(t[2], tile_in.height) - t[1],
                                 Min(t[4], tile_in.width) - t[3]>>])
    /\ tile_pc' = IF Len(tile_files) + 1 = Len(tiles_info) THEN "DONE" ELSE "INFO"
    /\ UNCHANGED <<tile_in, tiles_info, tile_info_file, parsevars,
                   v1vars, planvars, palomvars, convvars>>

TilesInit ==
    /\ tile_in \in TileInputs
    /\ tile_pc = "CREATED"
    /\ tiles_info = <<>>
    /\ tile_info_file = <<>>
    /\ tile_files = <<>>
    /\ ParseIdle /\ V1Idle /\ PlanIdle /\ PalomIdle /\ ConvIdle

TilesNext == CalculateTiles \/ SaveTileInfo \/ ExtractTile

SpecTiles == TilesInit /\ [][TilesNext]_vars

-----------------------------------------------------------------------------
(* Properties *)

\* C1: in register_akoya_palom_v1.py main, once the staging directory has
\* been created it no longer exists when main returns or raises, on every
\* exit path (success, failure while staging, while building a level, while
\* writing); it was never created only when main failed before mkdtemp.
StagingAreaRemoved_C1 ==
    pc \in Terminal =>
        /\ temp_dir # "exists"
        /\ failed_at \notin {"CREATED", "REGISTERED"} => temp_dir = "removed"

\* A run that failed while staging, after a channel had been staged
FailedWhileStaging_C1 ==
    /\ pc = "FAILED"
    /\ failed_at = "STAGING"
    /\ Len(temp_files) >= 1
    /\ temp_dir = "removed"

\* C2: in register_akoya_palom.py and register_akoya_palom_v2.py main, once
\* the staging directory has been created it is absent when main returns or
\* raises, including when a read, the transform or the save of a channel
\* fails during the staging loops.
PalomStagingAreaRemoved_C2 ==
    (p_pc \in Terminal /\ p_failed_at \notin {"CREATED", "VALIDATED"}) =>
        p_temp_dir = "removed"

PlanDone == plan_out.fn # "none"

MinDim(shape) == Min(shape[1], shape[2])

\* C3: level dimension law: level 0 is (base_height, base_width) and every
\* consecutive pair of planned levels (pyramid_shapes of main, the shapes of
\* build_pyramid's levels) satisfies h[l+1] = h[l] // 2, w[l+1] = w[l] // 2.
LevelDimensionLaw_C3 ==
    PlanDone =>
        /\ Len(plan_out.shapes) >= 1
        /\ plan_out.shapes[1] = <<plan_in.h, plan_in.w>>
        /\ \A l \in 1 .. Len(plan_out.shapes) - 1 :
              /\ plan_out.shapes[l + 1][1] = plan_out.shapes[l][1] \div 2
              /\ plan_out.shapes[l + 1][2] = plan_out.shapes[l][2] \div 2

\* Three levels planned by main from an odd base height
OddBasePlanned_C3 ==
    /\ plan_out.fn = "pyramid_shapes"
    /\ Len(plan_out.shapes) >= 3
    /\ plan_in.h % 2 = 1
    /\ plan_in.w # plan_in.h

\* C4: stopping law: for every base size, every integer max_levels and every
\* min_size_for_next the planner never emits more than max_levels entries,
\* and whenever it emits level l+1, min(h[l], w[l]) >= min_size_for_next.
StoppingLaw_C4 ==
    PlanDone =>
        /\ Len(plan_out.shapes) <= plan_in.max_levels
        /\ \A l \in 1 .. Len(plan_out.shapes) - 1 :
              MinDim(plan_out.shapes[l]) >= plan_in.min_size

\* The levels whose minimum dimension is below the threshold
Crossing == {l \in 1 .. Len(plan_out.shapes) :
                MinDim(plan_out.shapes[l]) < plan_in.min_size}

\* C5 (as stated): for every input the planned pyramid contains exactly one
\* level whose minimum dimension is below min_size_for_next, and that level
\* is the last one.
ExactlyOneCrossing_C5 ==
    PlanDone => Crossing = {Len(plan_out.shapes)}

\* C5 (amended): the planned pyramid contains at most one level whose minimum
\* dimension is below min_size_for_next, and such a level is the last one;
\* it contains exactly one whenever fewer than max_levels levels are planned.
CrossingLevelLast_C5 ==
    PlanDone =>
        /\ Crossing \subseteq {Len(plan_out.shapes)}
        /\ Len(plan_out.shapes) < plan_in.max_levels =>
              Crossing = {Len(plan_out.shapes)}

\* The planner stopped on the threshold after emitting several levels
StoppedOnThreshold_C5 ==
    /\ PlanDone
    /\ Len(plan_out.shapes) >= 3
    /\ Len(plan_out.shapes) < plan_in.max_levels
    /\ Crossing = {Len(plan_out.shapes)}

ScenarioAInput ==
    plan_in = [h |-> 2048, w |-> 2048, max_levels |-> 5, min_size |-> 512]

\* C6: scenario A: base 2048x2048, max_levels = 5, min_size_for_next = 512
\* yields exactly (2048,2048), (1024,1024), (512,512), (256,256).
ScenarioA_C6 ==
    (ScenarioAInput /\ PlanDone) =>
        plan_out.shapes = << <<2048, 2048>>, <<1024, 1024>>, <<512, 512>>, <<256, 256>> >>

\* Scenario A planned by main
ScenarioAPlanned_C6 ==
    /\ ScenarioAInput
    /\ plan_out.fn = "pyramid_shapes"
    /\ Len(plan_out.shapes) = 4

\* q is the 2x decimation of p: half the dimensions (rounded down), and
\* sample (i, j) of q is sample (2i, 2j) of p
IsDecimationOf(q, p) ==
    /\ q.h = p.h \div 2
    /\ q.w = p.w \div 2
    /\ DOMAIN q.px = Positions(q.h, q.w)
    /\ \A ij \in Positions(q.h, q.w) : q.px[ij] = p.px[<<2 * ij[1], 2 * ij[2]>>]

\* The (level, channel) entries assigned so far
Assigned(l, c) == \E k \in 1 .. Len(store_log) : store_log[k] = <<l, c>>

\* C7: decimation: for every channel c and every level l >= 1 the level-l
\* plane has the halved dimensions of the level l-1 plane of the same channel
\* and its sample (i, j) is sample (2i, 2j) of that plane (a trailing odd row
\* or column is dropped); downsample_2x of a staged plane does the same.
Decimation_C7 ==
    /\ \A l \in 1 .. Len(mmap_arrays) - 1 :
          \A c \in 0 .. total_channels - 1 :
              Assigned(l, c) =>
                  /\ Assigned(l - 1, c)
                  /\ IsDecimationOf(BufferPlane(mmap_arrays[l + 1], c),
                                    BufferPlane(mmap_arrays[l], c))
    /\ \A name \in DOMAIN disk : IsDecimationOf(downsample_2x(disk[name]), disk[name])

\* Level 2 of the last channel has been built from planes with an odd
\* dimension at level 0 or level 1
OddLevelsBuilt_C7 ==
    /\ Len(pyramid_shapes) >= 3
    /\ total_channels >= 2
    /\ Assigned(2, total_channels - 1)
    /\ pyramid_shapes[3][1] >= 1
    /\ \E l \in 1 .. 2 : pyramid_shapes[l][1] % 2 = 1 \/ pyramid_shapes[l][2] % 2 = 1

\* C8: level-0 identity: for every channel c the level-0 buffer entry c
\* equals, sample for sample and in the same sample type, the plane staged
\* for channel c.
Level0Identity_C8 ==
    \A c \in 0 .. total_channels - 1 :
        (Len(mmap_arrays) >= 1 /\ Assigned(0, c)) =>
            LET staged == disk[temp_files[c + 1]]
                entry == BufferPlane(mmap_arrays[1], c)
            IN  /\ entry.bits = staged.bits
                /\ entry.h = staged.h
                /\ entry.w = staged.w
                /\ entry.px = staged.px

\* The positions of main after level building has completed
LevelsBuilt ==
    \/ pc \in {"WRITE_OPEN", "WRITING", "WRITE_CLOSE", "DONE"}
    \/ pc = "FAILED" /\ failed_at \in {"WRITE_OPEN", "WRITING", "WRITE_CLOSE"}

\* The positions of main after staging has completed
StagingDone ==
    \/ pc \in InTry \ {"STAGING"}
    \/ pc = "DONE"
    \/ pc = "FAILED" /\ failed_at \in InTry \ {"STAGING"}

\* C9: channel-count invariant: total_channels is the number of planes
\* staged, and when level building completes every planned level holds
\* exactly the channel indices 0 .. total_channels-1, each assigned once.
ChannelCount_C9 ==
    /\ StagingDone => total_channels = Len(temp_files)
    /\ LevelsBuilt =>
          /\ Len(mmap_arrays) = Len(pyramid_shapes)
          /\ \A l \in 1 .. Len(pyramid_shapes) :
                /\ DOMAIN mmap_arrays[l].ch = 0 .. total_channels - 1
                /\ \A c \in 0 .. total_channels - 1 :
                      Cardinality({k \in 1 .. Len(store_log) :
                                      store_log[k] = <<l - 1, c>>}) = 1
          /\ \A k \in 1 .. Len(store_log) :
                /\ store_log[k][1] \in 0 .. Len(pyramid_shapes) - 1
                /\ store_log[k][2] \in 0 .. total_channels - 1

\* Several levels of more than one batch of channels from two cycles are built
LevelsOfTwoCyclesBuilt_C9 ==
    /\ pc = "WRITE_OPEN"
    /\ Len(pyramid_shapes) >= 2
    /\ Len(cycles_info) >= 2
    /\ total_channels > batch_size

\* The channels of cycle f in the order they are kept, as (cycle, channel)
KeptPairs(inp, f) ==
    [k \in 1 .. Len(ChannelsToProcess(inp, f)) |-> <<f, ChannelsToProcess(inp, f)[k]>>]

RECURSIVE MovingPairs(_, _)
MovingPairs(inp, idx) ==
    IF idx >= inp.n_files THEN <<>>
    ELSE (IF idx = inp.ref_index THEN <<>> ELSE KeptPairs(inp, idx))
             \o MovingPairs(inp, idx + 1)

\* Reference cycle first, then the moving cycles in ascending file index
ExpectedStaging(inp) == KeptPairs(inp, inp.ref_index) \o MovingPairs(inp, 0)

IsPrefix(a, b) == Len(a) <= Len(b) /\ \A k \in 1 .. Len(a) : a[k] = b[k]

\* The (cycle, channel) each staged file of the v1 run was read from
StagedV1 == [k \in 1 .. Len(temp_files) |->
                <<disk[temp_files[k]].cycle, disk[temp_files[k]].channel>>]

DenseNames(names, next_idx) ==
    /\ next_idx = Len(names)
    /\ \A k \in 1 .. Len(names) : names[k] = ChName(k - 1)
    /\ \A k1, k2 \in 1 .. Len(names) : names[k1] = names[k2] => k1 = k2

SeveralBatchesWritten ==
    /\ pc = "DONE"
    /\ total_channels > batch_size
    /\ n_levels >= 2

\* C11: metadata placement: exactly one write call carries the axis order and
\* pixel size metadata, and it is the first write call overall (level 0,
\* batch starting at channel 0); no later write carries it.
MetadataOnce_C11 ==
    /\ \A k \in 1 .. Len(writes) : writes[k].metadata <=> k = 1
    /\ Len(writes) >= 1 => writes[1].level = 0 /\ writes[1].batch_start = 0
    /\ pc = "DONE" => Cardinality({k \in 1 .. Len(writes) : writes[k].metadata}) = 1

\* A completed run with a second level-0 batch and a reduced level
MetadataWritten_C11 ==
    /\ SeveralBatchesWritten
    /\ writes[2].level = 0
    /\ writes[Len(writes)].level >= 1

\* C12: every write that declares n_sub sub-image slots (subifds=n_sub) is
\* followed by n_sub writes flagged reduced-resolution (subfiletype=1) for
\* the same channels at levels 1..n_sub, so no write without the flag occurs
\* while declared slots are unfilled.
SubLevelsLinked_C12 ==
    \A k \in 1 .. Len(writes) :
        \A j \in 1 .. writes[k].subifds :
            k + j <= Len(writes) =>
                /\ writes[k + j].subfiletype = 1
                /\ writes[k + j].level = j
                /\ writes[k + j].batch_start = writes[k].batch_start
                /\ writes[k + j].batch_end = writes[k].batch_end

\* The number of batches of one level
BatchesPerLevel == (total_channels + batch_size - 1) \div batch_size

\* The k-th write call (1-based) of a run, by the batching rule
ExpectedWrite(k) ==
    LET l == (k - 1) \div BatchesPerLevel
        s == batch_size * ((k - 1) % BatchesPerLevel)
    IN  [level |-> l, batch_start |-> s,
         batch_end |-> IF s + batch_size < total_channels THEN s + batch_size
                       ELSE total_channels]

\* C13: write batching: for every level the batches written are the ranges
\* [s, min(s+3, total_channels)) for s = 0, 3, 6, ... in ascending order,
\* non-empty, of at most 3 channels, partitioning 0..total_channels-1, one
\* write call each, all batches of level l before any batch of level l+1.
WriteBatching_C13 ==
    /\ \A k \in 1 .. Len(writes) :
          /\ writes[k].level = ExpectedWrite(k).level
          /\ writes[k].batch_start = ExpectedWrite(k).batch_start
          /\ writes[k].batch_end = ExpectedWrite(k).batch_end
          /\ writes[k].batch_start < writes[k].batch_end
          /\ writes[k].batch_end - writes[k].batch_start <= 3
          /\ writes[k].batch_end <= total_channels
    /\ pc \in {"WRITE_CLOSE", "DONE"} =>
          /\ Len(writes) = n_levels * BatchesPerLevel
          /\ \A l \in 0 .. n_levels - 1 : \A c \in 0 .. total_channels - 1 :
                Cardinality({k \in 1 .. Len(writes) :
                                /\ writes[k].level = l
                                /\ writes[k].batch_start <= c
                                /\ c < writes[k].batch_end}) = 1

\* A completed run whose levels were each written as a full and a short batch
ShortLastBatch_C13 ==
    /\ SeveralBatchesWritten
    /\ total_channels % batch_size # 0
    /\ Len(writes) = 2 * n_levels

\* C14: in register_akoya_palom.py the sequence of percentages passed to
\* report_progress during one run never decreases.
ProgressNeverRegresses_C14 ==
    \A k \in 1 .. Len(p_progress) - 1 : p_progress[k] <= p_progress[k + 1]

\* The pixel size of the input of a run of one of the three other writers:
\* the pixel_size argument, the pixel size the resolution tags stand for
\* (pixels per inch or per centimetre), or the OME PhysicalSizeX / Y
InputPixelSizes ==
    IF conv_in.script = "write_pyramidal_ometiff"
    THEN <<conv_in.pixel_size, conv_in.pixel_size>>
    ELSE IF conv_in.script = "convert_to_pyramidal"
    THEN LET um == IF conv_in.unit = "INCH" THEN 25400 ELSE 10000
         IN  <<Frac(um * conv_in.xres[2], conv_in.xres[1]),
               Frac(um * conv_in.xres[2], conv_in.xres[1])>>
    ELSE <<conv_in.size_x, conv_in.size_y>>

\* The input of the run carries a pixel size
HasInputPixelSize ==
    \/ conv_in.script = "write_pyramidal_ometiff"
    \/ /\ conv_in.script = "convert_to_pyramidal"
       /\ conv_in.has_xres /\ conv_in.unit # "NONE"
       /\ conv_in.xres[1] # 0 /\ conv_in.xres[2] # 0
    \/ conv_in.script = "downsample_registered" /\ conv_in.ome = "size"

\* C15: in every script that writes the container (v1 main,
\* write_pyramidal_ometiff, convert_to_pyramidal, downsample_registered) the
\* PhysicalSizeX and PhysicalSizeY written on the base sub-image equal the
\* pixel size read from the input, unscaled, whatever level of the input is
\* read and however many output levels are built.
PixelSizeVerbatim_C15 ==
    /\ \A k \in 1 .. Len(writes) :
          writes[k].metadata =>
              /\ writes[k].meta.PhysicalSizeX = input.pixel_size[input.ref_index]
              /\ writes[k].meta.PhysicalSizeY = input.pixel_size[input.ref_index]
    /\ \A k \in 1 .. Len(conv_writes) :
          (conv_writes[k].metadata /\ HasInputPixelSize) =>
              /\ FracEq(conv_writes[k].meta.PhysicalSizeX, InputPixelSizes[1])
              /\ FracEq(conv_writes[k].meta.PhysicalSizeY, InputPixelSizes[2])

\* The metadata keys of the first write call that are not the axis order or
\* the pixel size
NameKeys(meta) ==
    DOMAIN meta \ {"axes", "PhysicalSizeX", "PhysicalSizeY",
                   "PhysicalSizeXUnit", "PhysicalSizeYUnit"}

\* C16: the metadata written on the base sub-image by v1 main contains,
\* besides axis order and physical pixel size, one display name per channel
\* (the names returned by load_marker_names), in global channel order.
ChannelNamesWritten_C16 ==
    \A k \in 1 .. Len(writes) :
        writes[k].metadata =>
            /\ {"axes", "PhysicalSizeX", "PhysicalSizeY"} \subseteq DOMAIN writes[k].meta
            /\ NameKeys(writes[k].meta) # {}
            /\ \A key \in NameKeys(writes[k].meta) :
                  /\ writes[k].meta[key] = marker_names
                  /\ Len(marker_names) = total_channels

\* C17: stage ordering in v1 main: no plane is staged before the staging
\* area exists, and a run that fails before it exists builds no level and
\* opens no output file; every staged plane and every level buffer entry is
\* written before it is read; the first container write happens only after
\* every planned level holds every channel.
StageOrdering_C17 ==
    /\ (temp_files # <<>> \/ DOMAIN disk # {}) => temp_dir # "none"
    /\ pc = "STAGING" => temp_dir = "exists"
    /\ temp_dir = "none" =>
          /\ temp_files = <<>> /\ mmap_arrays = <<>> /\ store_log = <<>>
          /\ out_file = "absent" /\ writes = <<>>
    /\ \A k \in 1 .. Len(temp_files) : temp_files[k] \in DOMAIN disk
    /\ pc \in {"PLAN", "LEVEL_OPEN", "LEVEL_CHAN", "LEVEL_CLOSE"} =>
          /\ Len(temp_files) >= 1
          /\ Len(temp_files) = total_channels
    /\ \A k \in 1 .. Len(store_log) :
          /\ store_log[k][1] + 1 <= Len(mmap_arrays)
          /\ store_log[k][2] + 1 <= Len(temp_files)
    /\ (out_file # "absent" \/ writes # <<>>) =>
          /\ Len(mmap_arrays) = n_levels
          /\ \A l \in 0 .. n_levels - 1 : \A c \in 0 .. total_channels - 1 :
                Assigned(l, c)
    /\ \A k \in 1 .. Len(writes) :
          \A c \in writes[k].batch_start .. writes[k].batch_end - 1 :
              Assigned(writes[k].level, c)

\* The first container write of a run with three levels of two channels
FirstWriteAfterLevels_C17 ==
    /\ pc = "WRITING"
    /\ Len(writes) = 1
    /\ n_levels = 3
    /\ total_channels = 2
    /\ Len(store_log) = 6

\* Every (level, channel) entry and every staged file is written once
WrittenOnce ==
    /\ \A k1, k2 \in 1 .. Len(store_log) : store_log[k1] = store_log[k2] => k1 = k2
    /\ \A k1, k2 \in 1 .. Len(temp_files) : temp_files[k1] = temp_files[k2] => k1 = k2

\* A step leaves every staged file and every assigned entry as it is, and a
\* step of the writing stage leaves the level buffers as they are
StoreUnmodified ==
    /\ \A name \in DOMAIN disk : name \in DOMAIN disk' /\ disk'[name] = disk[name]
    /\ \A l \in 1 .. Len(mmap_arrays) : \A c \in 0 .. total_channels - 1 :
          Assigned(l - 1, c) =>
              /\ Len(mmap_arrays') >= l
              /\ mmap_arrays'[l].ch[c] = mmap_arrays[l].ch[c]
    /\ pc \in {"WRITE_OPEN", "WRITING", "WRITE_CLOSE"} => mmap_arrays' = mmap_arrays

UpstreamFailureReported_C19 ==
    /\ (pc = "FAILED" /\ failed_at = "STAGING") =>
          /\ out_file = "absent"
          /\ writes = <<>>
          /\ error.raised
          /\ error.channel = global_channel_idx
    /\ (p_pc = "FAILED" /\ p_failed_at \in {"REF", "MOVING"}) =>
          /\ p_out_file = "absent"
          /\ p_error.raised
          /\ p_error.channel = p_global_channel_idx

\* A --ref-index or a --cycle-channels cycle index outside [0, n_files)
InvalidCycleIndex(inp) ==
    \/ inp.ref_index \notin 0 .. inp.n_files - 1
    \/ \E idx \in DOMAIN inp.cycle_channel_map : idx \notin 0 .. inp.n_files - 1

\* C20: cycle index validation: with a --ref-index outside [0, n_files), or a
\* --cycle-channels block whose cycle index is outside [0, n_files), the
\* script fails with a ValueError before any image reader is opened, before
\* the staging area is created and before any output is written.
CycleIndexValidation_C20 ==
    (p_pc # "idle" /\ InvalidCycleIndex(p_in)) =>
        /\ p_pc \in {"CREATED", "FAILED"}
        /\ p_pc = "FAILED" => p_error.raised /\ p_error.type = "ValueError"
        /\ p_readers = 0
        /\ p_temp_dir = "none"
        /\ temp_channel_files = <<>>
        /\ p_out_file = "absent"

\* A run rejected for a --ref-index equal to the number of files
RefIndexRejected_C20 ==
    /\ p_pc = "FAILED"
    /\ p_failed_at = "CREATED"
    /\ p_in.ref_index = p_in.n_files
    /\ p_error.type = "ValueError"
    /\ p_readers = 0

NoReadablePixelSize ==
    \/ /\ conv_in.script = "convert_to_pyramidal"
       /\ (~conv_in.has_xres \/ conv_in.xres[1] = 0 \/ conv_in.xres[2] = 0)
    \/ /\ conv_in.script = "downsample_registered"
       /\ conv_in.ome \in {"absent", "nosize"}

DefaultPixelSize ==
    IF conv_in.script = "convert_to_pyramidal" THEN Frac(1, 2) ELSE Frac(1, 1)

\* C22: with absent or unreadable physical-pixel-size metadata,
\* convert_to_pyramidal and downsample_registered (run with a --level that is
\* not negative) do not fail: they write the complete output with the fixed
\* default pixel size, 0.5 um and 1.0 um respectively, the same for X and Y.
DefaultPixelSize_C22 ==
    (conv_pc \in Terminal /\ NoReadablePixelSize /\ conv_in.level >= 0) =>
        /\ conv_pc = "DONE"
        /\ conv_writes # <<>>
        /\ FracEq(conv_writes[1].meta.PhysicalSizeX, DefaultPixelSize)
        /\ FracEq(conv_writes[1].meta.PhysicalSizeY, DefaultPixelSize)

\* C23: in the unbatched writers (write_pyramidal_ometiff, convert_to_pyramidal
\* main, downsample_registered main), for a pyramid of N levels the base
\* write comes first, carries the metadata and declares exactly N-1
\* sub-images (none when N = 1), and is followed by exactly N-1 writes flagged
\* reduced-resolution, in ascending level order, without metadata and with
\* the same tile size and compression as the base.
UnbatchedLayout_C23 ==
    conv_pc = "DONE" =>
        LET N == Len(conv_writes)
        IN  /\ N >= 1
            /\ conv_writes[1].level = 0
            /\ conv_writes[1].metadata
            /\ DOMAIN conv_writes[1].meta # {}
            /\ conv_writes[1].subfiletype = 0
            /\ conv_writes[1].subifds = IF N = 1 THEN 0 ELSE N - 1
            /\ \A i \in 2 .. N :
                  /\ conv_writes[i].subfiletype = 1
                  /\ conv_writes[i].level = i - 1
                  /\ conv_writes[i].shape =
                        <<conv_writes[i - 1].shape[1] \div 2,
                          conv_writes[i - 1].shape[2] \div 2>>
                  /\ ~conv_writes[i].metadata
                  /\ conv_writes[i].meta = <<>>
                  /\ conv_writes[i].subifds = 0
                  /\ conv_writes[i].tile = conv_writes[1].tile
                  /\ conv_writes[i].compression = conv_writes[1].compression

\* write_pyramidal_ometiff called with tile_size 256 and compression "none"
\* has written three levels
ThreeLevelsUncompressed_C23 ==
    /\ conv_pc = "DONE"
    /\ conv_in.script = "write_pyramidal_ometiff"
    /\ Len(conv_writes) = 3
    /\ conv_writes[3].tile = <<256, 256>>
    /\ conv_writes[3].compression = "None"

\* C30: downsample_registered: for every integer --level and every input
\* with n >= 1 pyramid levels the run reads a level whose index is in
\* [0, n): the requested level when that level exists and 0 otherwise, and
\* the pixel size written is the input's scaled by 2 to the power of that
\* same index.
LevelReadInRange_C30 ==
    (conv_pc \in Terminal /\ conv_in.script = "downsample_registered") =>
        LET n == conv_in.n_input_levels
            expected == IF conv_in.level \in 0 .. n - 1 THEN conv_in.level ELSE 0
        IN  /\ conv_pc = "DONE"
            /\ conv_level \in 0 .. n - 1
            /\ conv_level = expected
            /\ conv_in.ome = "size" =>
                  /\ FracEq(conv_writes[1].meta.PhysicalSizeX,
                            FracTimes(conv_in.size_x, 2 ^ conv_level))
                  /\ FracEq(conv_writes[1].meta.PhysicalSizeY,
                            FracTimes(conv_in.size_y, 2 ^ conv_level))

\* The stages of v1 main in their order
StageRank(at) ==
    IF at \in {"CREATED", "REGISTERED"} THEN 0
    ELSE IF at = "STAGING" THEN 1
    ELSE IF at \in {"PLAN", "LEVEL_OPEN", "LEVEL_CHAN", "LEVEL_CLOSE"} THEN 2
    ELSE IF at \in {"WRITE_OPEN", "WRITING", "WRITE_CLOSE"} THEN 3
    ELSE 4

\* The position inside the stage: the loop counters of the stage, in loop
\* nesting order
Progress ==
    IF pc = "REGISTERED" THEN 1
    ELSE IF pc = "STAGING" THEN global_channel_idx
    ELSE IF pc = "LEVEL_OPEN" THEN 1 + level_idx * (total_channels + 3)
    ELSE IF pc = "LEVEL_CHAN" THEN 2 + level_idx * (total_channels + 3) + ch_idx
    ELSE IF pc = "LEVEL_CLOSE" THEN 3 + level_idx * (total_channels + 3) + total_channels
    ELSE IF pc = "WRITING" THEN 1 + level_idx * (total_channels + 1) + batch_start
    ELSE IF pc = "WRITE_CLOSE" THEN 1 + n_levels * (total_channels + 1)
    ELSE 0

\* A step leaves a non-terminal stage, either to FAILED, or forward inside
\* its stage, or to the first position of the next stage; the levels are
\* built in ascending order
StageStep ==
    /\ pc \notin Terminal
    /\ \/ pc' = "FAILED"
       \/ /\ StageRank(pc') = StageRank(pc)
          /\ Progress' > Progress
       \/ /\ StageRank(pc') = StageRank(pc) + 1
          /\ Progress' = 0 \/ pc' = "STAGING"
    /\ (pc' # "FAILED" /\ StageRank(pc) = 2 /\ StageRank(pc') = 2) =>
          level_idx' \in {level_idx, level_idx + 1}
    /\ pc' = "DONE" => pc = "WRITE_CLOSE"

\* C24: every run of v1 main terminates: it visits the stages only in the
\* order CREATED, STAGING, LEVEL_BUILDING (levels ascending), WRITING, DONE,
\* may move to FAILED from any non-terminal stage, every loop advances, DONE
\* or FAILED is eventually reached, and after DONE or FAILED no step occurs.
Termination_C24 ==
    /\ [][StageStep]_vars
    /\ [](pc \notin Terminal => ENABLED (Raise \/ RaiseBeforeTry))
    /\ <>(pc \in Terminal)

\* A run of four channels and three levels that completed
LongRunCompleted_C24 ==
    /\ pc = "DONE"
    /\ total_channels = 4
    /\ n_levels = 3
    /\ Len(writes) = 6

\* C25: the "Expected pyramid levels" count of register_akoya_palom.py and
\* register_akoya_palom_v2.py equals, for every h, w >= 1 and every integer
\* max_pyramid_levels and min_size_for_next_level, the number of levels the
\* planner of v1 and build_pyramid emit for the same inputs.
ExpectedLevelsAgree_C25 ==
    plan_levels # 0 =>
        /\ plan_levels = Len(PlanShapes(plan_in.h, plan_in.w, plan_in.max_levels,
                                        plan_in.min_size))
        /\ plan_levels = Len(BuildPyramidShapes(plan_in.h, plan_in.w,
                                                plan_in.max_levels, plan_in.min_size))

\* The count computed for a plan that stops on the threshold, below the
\* level limit
ExpectedStopsOnThreshold_C25 ==
    /\ plan_levels = 3
    /\ plan_in.max_levels > 3
    /\ Min(plan_in.h, plan_in.w) \div 4 < plan_in.min_size
    /\ Min(plan_in.h, plan_in.w) \div 2 = plan_in.min_size

\* C26: the level-l plane that v1 main derives from the full-resolution
\* plane by l steps x[::2, ::2][:h//2, :w//2] has exactly the planned
\* dimensions pyramid_shapes[l], so that the assignment into the level
\* buffer fits, and equals sample for sample level l of build_pyramid /
\* build_pyramid_for_channel, for odd and even h, w >= 1.
DirectEqualsSuccessive_C26 ==
    /\ (pc = "LEVEL_CHAN" /\ ch_idx < Len(temp_files)) =>
          LET derived == DownsampleToLevel(disk[temp_files[ch_idx + 1]], level_idx)
          IN  /\ <<derived.h, derived.w>> = pyramid_shapes[level_idx + 1]
              /\ derived.h = mmap_arrays[level_idx + 1].h
              /\ derived.w = mmap_arrays[level_idx + 1].w
    /\ store_log # <<>> =>
          LET l == store_log[Len(store_log)][1]
              c == store_log[Len(store_log)][2]
              channel_full == disk[temp_files[c + 1]]
              derived == DownsampleToLevel(channel_full, l)
              pyr == build_pyramid_for_channel(channel_full, input.max_pyramid_levels,
                                               input.min_size_for_next_level)
          IN  /\ Len(pyr) = n_levels
              /\ l + 1 <= Len(pyr)
              /\ derived = pyr[l + 1]
              /\ <<derived.h, derived.w>> = pyramid_shapes[l + 1]
              /\ DOMAIN derived.px = Positions(derived.h, derived.w)

\* Level 2 assigned from a plane of odd height and odd width whose level 1
\* is odd too in one dimension
OddPlaneLevel2_C26 ==
    /\ store_log # <<>>
    /\ store_log[Len(store_log)][1] = 2
    /\ pyramid_shapes[1][1] % 2 = 1
    /\ pyramid_shapes[1][2] % 2 = 1
    /\ pyramid_shapes[2][1] % 2 = 1 \/ pyramid_shapes[2][2] % 2 = 1

\* C27: for base height and width >= 1 and min_size_for_next >= 2, every
\* level the planner emits (pyramid_shapes of v1 main, the levels of
\* build_pyramid) has height >= 1 and width >= 1, for every max_levels.
NoEmptyLevel_C27 ==
    (PlanDone /\ plan_in.h >= 1 /\ plan_in.w >= 1 /\ plan_in.min_size >= 2) =>
        \A l \in 1 .. Len(plan_out.shapes) :
            plan_out.shapes[l][1] >= 1 /\ plan_out.shapes[l][2] >= 1

\* A last level of one row planned with the threshold 2
OneRowLevel_C27 ==
    /\ PlanDone
    /\ plan_in.min_size = 2
    /\ Len(plan_out.shapes) >= 2
    /\ plan_out.shapes[Len(plan_out.shapes)][1] = 1

\* C28: parse_cycle_channels(spec, n_files): a None spec returns the empty
\* mapping; otherwise it raises ValueError (a block without ':', a cycle
\* index outside [0, n_files), a block with no channel) or returns a mapping
\* in which every key is in [0, n_files) and every value is the non-empty
\* list of the block's channel integers in the order given, the last block
\* of a cycle index winning; the three copies of the function agree.
ParseCycleChannels_C28 ==
    (parse_in # <<>> /\ parse_out.copy # "none") =>
        LET result == parse_out.result
            \* what the blocks of the string say, the blank ones left out
            SaidBlocks == SelectSeq(parse_in.blocks, LAMBDA b : b.kind # "blank")
            WrongBlock(b) == b.kind # "ok" \/ b.idx \notin 0 .. parse_in.n_files - 1
        IN  /\ parse_in.none => result.raised = "none" /\ DOMAIN result.mapping = {}
            /\ result.raised \in {"none", "ValueError"}
            /\ result.raised = "ValueError" <=>
                  \E i \in 1 .. Len(SaidBlocks) : WrongBlock(SaidBlocks[i])
            /\ result.raised = "none" =>
                  /\ DOMAIN result.mapping = {SaidBlocks[i].idx : i \in 1 .. Len(SaidBlocks)}
                  /\ \A k \in DOMAIN result.mapping :
                        /\ k \in 0 .. parse_in.n_files - 1
                        /\ result.mapping[k] # <<>>
                        /\ \E i \in 1 .. Len(SaidBlocks) :
                              /\ SaidBlocks[i].idx = k
                              /\ \A j \in i + 1 .. Len(SaidBlocks) : SaidBlocks[j].idx # k
                              /\ result.mapping[k] = SaidBlocks[i].chans
            /\ \A copy \in {"v1", "v2"} :
                  result = parse_cycle_channels(parse_in, parse_in.n_files, copy)

\* Two blocks for cycle 0, spelled differently: the second one is returned
LastBlockWins_C28 ==
    /\ parse_in # <<>>
    /\ parse_out.copy = "v1"
    /\ parse_out.result.raised = "none"
    /\ Len(parse_in.blocks) = 2
    /\ parse_in.blocks[1].idx = 0 /\ parse_in.blocks[1].style = "plain"
    /\ parse_in.blocks[2].idx = 0 /\ parse_in.blocks[2].style = "spaced"
    /\ parse_in.blocks[1].chans = <<0>>
    /\ parse_out.result.mapping[0] = <<1, 10>>

\* C29: tile_large_image, for height, width >= 1 and tile_size > overlap >= 0:
\* every tile (y, y_end, x, x_end) has 0 <= y < y_end <= height,
\* 0 <= x < x_end <= width, y_end - y <= tile_size and x_end - x <= tile_size;
\* every pixel of the image lies in at least one tile; the tiles are numbered
\* row-major (y outer, x inner); tile_info.txt lists them under the same
\* indices as the tile files.
TilesCoverImage_C29 ==
    (tile_pc \in {"TILED", "INFO", "DONE"}) =>
        /\ \A k \in 1 .. Len(tiles_info) :
              LET t == tiles_info[k]
              IN  /\ 0 <= t[1] /\ t[1] < t[2] /\ t[2] <= tile_in.height
                  /\ 0 <= t[3] /\ t[3] < t[4] /\ t[4] <= tile_in.width
                  /\ t[2] - t[1] <= tile_in.tile_size
                  /\ t[4] - t[3] <= tile_in.tile_size
        /\ \A r \in 0 .. tile_in.height - 1 : \A c \in 0 .. tile_in.width - 1 :
              \E k \in 1 .. Len(tiles_info) :
                  /\ tiles_info[k][1] <= r /\ r < tiles_info[k][2]
                  /\ tiles_info[k][3] <= c /\ c < tiles_info[k][4]
        /\ \A i, j \in 1 .. Len(tiles_info) :
              i < j => \/ tiles_info[i][1] < tiles_info[j][1]
                       \/ /\ tiles_info[i][1] = tiles_info[j][1]
                          /\ tiles_info[i][3] < tiles_info[j][3]
        /\ tile_pc \in {"INFO", "DONE"} =>
              /\ Len(tile_info_file) = 3 + Len(tiles_info)
              /\ \A k \in 1 .. Len(tiles_info) :
                    tile_info_file[3 + k].value = tiles_info[k]
              /\ \A k \in 1 .. Len(tile_files) :
                    /\ tile_files[k].name = tile_info_file[3 + k].key \o <<".ome.tif">>
                    /\ tile_files[k].y = tile_info_file[3 + k].value[1]
                    /\ tile_files[k].x = tile_info_file[3 + k].value[3]
                    /\ tile_files[k].shape[2]
                         = tile_info_file[3 + k].value[2] - tile_info_file[3 + k].value[1]
                    /\ tile_files[k].shape[3]
                         = tile_info_file[3 + k].value[4] - tile_info_file[3 + k].value[3]
                    /\ \A m \in 1 .. Len(tile_files) :
                          tile_files[m].name = tile_files[k].name => m = k
        /\ tile_pc = "DONE" => Len(tile_files) = Len(tiles_info)

\* A 5 x 4 image cut with tile size 3 and overlap 1: six tiles written, the
\* neighbours overlapping and the last row and column cut at the border
OverlappingClampedTiles_C29 ==
    /\ tile_pc = "DONE"
    /\ tile_in.height = 5 /\ tile_in.width = 4
    /\ tile_in.tile_size = 3 /\ tile_in.overlap = 1
    /\ Len(tile_files) = 6
    /\ tiles_info[6] = <<4, 5, 2, 4>>
    /\ tiles_info[2] = <<0, 3, 2, 4>>

====
